---- MODULE Spec2Model ----
(***************************************************************************)
(* Device lifecycle of the dual-camera acquisition tool.                   *)
(*                                                                         *)
(*   ir   : driver/guideDriver.py  IRCamera   (infrared session)           *)
(*   rgb  : driver/hikDriver.py    RGBCamera  (visible-light session) and  *)
(*          the CameraOperation object it owns (hikrobot/CamOperation)     *)
(*   rgbOpenFlag .. stateStartButton : demo.py Window (the controller)     *)
(*   storeManage : storeManage.py StoreManage (what a snapshot stores)     *)
(*   dragDropAreaEnabled .. render_context : demo.py Window, the render    *)
(*          page; threads : functionWorker.py, every worker thread         *)
(*          constructed so far; events : the signals queued to the UI      *)
(*          thread and not yet handled                                     *)
(*                                                                         *)
(* Every driver method is an operator from a context (the two driver       *)
(* objects, the native calls issued so far, the log lines written so far,  *)
(* the return value) to a context, so that a handler can chain them the    *)
(* way the code does.  The vendor SDKs are opaque: each native call        *)
(* returns a status drawn from Codes.                                      *)
(*                                                                         *)
(*   SpecDrv : the public methods of the two session classes called in     *)
(*             any order (what a unit test with a fake backend can do)     *)
(*   Spec    : the Window handlers only (what the operator can do)         *)
(*   SpecRender : the render page, its worker threads and the UI thread's  *)
(*             event queue                                                 *)
(*   SpecTemp2Img : render_temp2img alone, on every path of the bounds     *)
(***************************************************************************)
EXTENDS Integers, Sequences, FiniteSets, TLC

VARIABLES ir, rgb,
          rgbOpenFlag, rgbBusyFlag, irOpenFlag, irBusyFlag,
          hikOpenButton, guideLoadButton, stateStartButton,
          hikEnumComboBox, hikOpenButtonEnabled, hikParamEnabled, running,
          storeManage,
          dragDropAreaEnabled, renderThread, render_context,
          threads, events,
          path, temp2img, data_normalized, grab, args,
          calls, log, op, pre

winvars == <<rgbOpenFlag, rgbBusyFlag, irOpenFlag, irBusyFlag,
             hikOpenButton, guideLoadButton, stateStartButton,
             hikEnumComboBox, hikOpenButtonEnabled, hikParamEnabled, running,
             storeManage>>
rendervars == <<dragDropAreaEnabled, renderThread, render_context,
                threads, events>>
fnvars == <<path, temp2img, data_normalized, grab>>
vars == <<ir, rgb, rgbOpenFlag, rgbBusyFlag, irOpenFlag, irBusyFlag,
          hikOpenButton, guideLoadButton, stateStartButton,
          hikEnumComboBox, hikOpenButtonEnabled, hikParamEnabled, running,
          storeManage,
          dragDropAreaEnabled, renderThread, render_context,
          threads, events, path, temp2img, data_normalized, grab, args,
          calls, log, op, pre>>

(***************************************************************************)
(* Bounds and program constants                                            *)
(***************************************************************************)
\* largest failure status a native call returns in the model
MaxBackendCode == 1
\* largest non-zero handle SGP_InitDevice returns in the model
MaxHandle == 1
\* number of worker threads constructed in one behaviour
MaxThreads == 2
\* number of matrix files in a dropped folder
MaxFiles == 2
\* number of matrix files in a folder of well-formed matrices only
MaxDocs == 50
MaxSamples == 3
MaxTemp == 4
MaxWorkThreads == 2
MaxCallbacks == 2
\* render_temp2img(step_signal, path, height=384, width=512)
height == 384
width == 512

SGP_OK == 0
MV_OK == 0
\* 0x80000003 as the 32-bit value the SDK returns
MV_E_CALLORDER == -2147483645
\* Python's None, as a handle and as the value of a function that falls
\* off its end
None == -1
\* the handle field of a native call that takes no SGP handle
NoHandle == -2
SGP_VL_VIDEO == 1
SGP_IR_VIDEO == 2
VideoTypes == {SGP_VL_VIDEO, SGP_IR_VIDEO}
\* `not SGP_OK` and `not MV_OK` are the Python value True, which is 1
NotOK == 1

\* A Python value: its type and, for a number, ten times the number (a
\* float is held to one decimal).  A str holds the integer it spells, or
\* NoNumber when int() raises ValueError on it.
NoNumber == -1
PyInt(n) == [type |-> "int", tenths |-> 10 * n]
PyBool(b) == [type |-> "bool", tenths |-> IF b THEN 10 ELSE 0]
PyFloat(tenths) == [type |-> "float", tenths |-> tenths]
PyStr(n) == [type |-> "str", tenths |-> 10 * n]
PyText == [type |-> "str", tenths |-> NoNumber]
PyNone == [type |-> "NoneType", tenths |-> 0]

\* isinstance(v, int): bool is a subclass of int
isinstance_int(v) == v.type \in {"int", "bool"}
isinstance_float(v) == v.type = "float"

\* int(v) raises TypeError on None and ValueError on a str that spells no
\* integer
int_raises(v) ==
    v.type = "NoneType" \/ (v.type = "str" /\ v.tenths = NoNumber)

\* int(v) otherwise: a float is truncated towards zero
int_of(v) ==
    IF v.tenths >= 0 THEN v.tenths \div 10 ELSE -((-v.tenths) \div 10)

Codes == 0..MaxBackendCode
Handles == 1..MaxHandle

(***************************************************************************)
(* Context plumbing                                                        *)
(***************************************************************************)
Native(c, fn, h) == [c EXCEPT !.calls = Append(@, [fn |-> fn, h |-> h])]

Log(c, line) == [c EXCEPT !.log = Append(@, line)]

Return(c, v) == [c EXCEPT !.ret = v]

Raise(c) == [c EXCEPT !.raised = TRUE, !.ret = None]

\* the second component of a (code, value) result
ReturnVal(c, v, val) == [c EXCEPT !.ret = v, !.val = val]

(***************************************************************************)
(* IRCamera (driver/guideDriver.py)                                        *)
(***************************************************************************)
_ensure_handle(c) ==
    IF c.ir.handle = None
    THEN Return(Log(c, "error: handle is None"), NotOK)
    ELSE Return(c, SGP_OK)

\* h is what SGP_InitDevice returns: 0 on failure, a handle otherwise
_init_device(c, h) ==
    IF c.ir.handle = None
    THEN LET c1 == Native(c, "SGP_InitDevice", NoHandle)
             c2 == [c1 EXCEPT !.ir.handle = h]
             c3 == IF h = 0 THEN Log(c2, "error: Init device failed") ELSE c2
         IN  Log(c3, "info: Init device successes")
    ELSE c

login(c, r) ==
    IF _ensure_handle(c).ret # SGP_OK
    THEN Return(_ensure_handle(c), NotOK)
    ELSE IF c.ir._logged_in
    THEN Return(Log(c, "warning: Already logged in"), SGP_OK)
    ELSE LET c1 == Native(c, "SGP_Login", c.ir.handle)
         IN  IF r = SGP_OK
             THEN Return(Log([c1 EXCEPT !.ir._logged_in = TRUE],
                             "info: Login successes"), SGP_OK)
             ELSE Return(Log(c1, "error: Login failed"), NotOK)

\* logout that stays logged in when SGP_Logout fails
logout_stays_logged_in_on_failure(c, r) ==
    LET c0 == IF c.ir.handle = None \/ ~c.ir._logged_in
              THEN Log(c, "warning: Already logout")
              ELSE c
        c1 == Native(c0, "SGP_Logout", c.ir.handle)
        c2 == [c1 EXCEPT !.ir._logged_in = FALSE]
    IN  IF r = SGP_OK
        THEN Return(Log(c2, "info: Logout successes"), SGP_OK)
        ELSE Return(Log(c1, "warning: Logout failed"), NotOK)

logout(c, r) ==
    LET c0 == IF c.ir.handle = None \/ ~c.ir._logged_in
              THEN Log(c, "warning: Already logout")
              ELSE c
        c1 == Native(c0, "SGP_Logout", c.ir.handle)
        c2 == [c1 EXCEPT !.ir._logged_in = FALSE]
    IN  IF r = SGP_OK
        THEN Return(Log(c2, "info: Logout successes"), SGP_OK)
        ELSE Return(Log(c2, "warning: Logout failed"), NotOK)

release(c) ==
    IF c.ir.handle # None
    THEN LET c1 == Native(c, "SGP_UnInitDevice", c.ir.handle)
         IN  [c1 EXCEPT !.ir.handle = None]
    ELSE c

\* open_ir_video without its "already open" guard
open_ir_video_reopens(c, r) ==
    IF _ensure_handle(c).ret # SGP_OK
    THEN Return(_ensure_handle(c), NotOK)
    ELSE LET c1 == Native(c, "SGP_OpenIrVideo", c.ir.handle)
         IN  IF r = SGP_OK
             THEN Return(Log([c1 EXCEPT !.ir._video_opened = TRUE,
                                        !.ir._video_callback = TRUE],
                             "info: Open IR video successes"), SGP_OK)
             ELSE Return(Log(c1, "error: Open IR video failed"), NotOK)

\* open_ir_video that does not keep the callback wrapper
open_ir_video_forgets_callback(c, r) ==
    IF _ensure_handle(c).ret # SGP_OK
    THEN Return(_ensure_handle(c), NotOK)
    ELSE IF c.ir._video_opened
    THEN Return(Log(c, "warning: Already open IR video"), SGP_OK)
    ELSE LET c1 == Native(c, "SGP_OpenIrVideo", c.ir.handle)
         IN  IF r = SGP_OK
             THEN Return(Log([c1 EXCEPT !.ir._video_opened = TRUE],
                             "info: Open IR video successes"), SGP_OK)
             ELSE Return(Log(c1, "error: Open IR video failed"), NotOK)

open_ir_video(c, r) ==
    IF _ensure_handle(c).ret # SGP_OK
    THEN Return(_ensure_handle(c), NotOK)
    ELSE IF c.ir._video_opened
    THEN Return(Log(c, "warning: Already open IR video"), SGP_OK)
    ELSE LET c1 == Native(c, "SGP_OpenIrVideo", c.ir.handle)
         IN  IF r = SGP_OK
             THEN Return(Log([c1 EXCEPT !.ir._video_opened = TRUE,
                                        !.ir._video_callback = TRUE],
                             "info: Open IR video successes"), SGP_OK)
             ELSE Return(Log(c1, "error: Open IR video failed"), NotOK)

close_ir_video(c) ==
    IF c.ir.handle = None \/ ~c.ir._video_opened
    THEN Return(Log(c, "warning: Already close IR video"), SGP_OK)
    ELSE LET c1 == Native(c, "SGP_CloseIrVideo", c.ir.handle)
         IN  Return(Log([c1 EXCEPT !.ir._video_opened = FALSE,
                                   !.ir._video_callback = FALSE],
                        "info: Close IR video successes"), SGP_OK)

\* the destructor; r: result of SGP_Logout.  None of the three methods
\* raises, so the except clause has nothing to swallow.
__del__(c, r) ==
    LET c1 == IF c.ir._video_opened THEN close_ir_video(c) ELSE c
        c2 == IF c1.ir._logged_in THEN logout(c1, r) ELSE c1
    IN  Return(release(c2), None)

\* irOperation.get_thermometry_param returns the pair (code, structure);
\* the wrapper binds the whole pair to p, and a non-empty tuple is true
get_thermometry_param(c, r) ==
    IF _ensure_handle(c).ret # SGP_OK
    THEN ReturnVal(_ensure_handle(c), NotOK, "None")
    ELSE LET c1 == Native(c, "SGP_GetThermometryParam", c.ir.handle)
         IN  ReturnVal(Log(c1, "info: Get thermometry param successes"),
                       SGP_OK, "tuple")

\* r: result of SGP_SetThermometryParam
set_thermometry_param(c, r) ==
    IF _ensure_handle(c).ret # SGP_OK
    THEN Return(_ensure_handle(c), NotOK)
    ELSE LET c1 == Native(c, "SGP_SetThermometryParam", c.ir.handle)
         IN  IF r = SGP_OK
             THEN Return(Log(c1, "info: Set thermometry param successes"),
                         SGP_OK)
             ELSE Return(Log(c1, "error: Set thermometry param failed"),
                         NotOK)

\* r: result of SGP_SetFocus
set_focus(c, r) ==
    IF _ensure_handle(c).ret # SGP_OK
    THEN Return(_ensure_handle(c), NotOK)
    ELSE LET c1 == Native(c, "SGP_SetFocus", c.ir.handle)
         IN  IF r = SGP_OK
             THEN Return(Log(c1, "info: Set focus successes"), SGP_OK)
             ELSE Return(Log(c1, "error: Set focus failed"), NotOK)

\* cb: the SGP_RECORDCALLBACK object handed to SGP_StartRecord (the one
\* passed in, or the wrapper made around the callable); r: the result
start_record(c, video_type, cb, r) ==
    IF _ensure_handle(c).ret # SGP_OK
    THEN Return(_ensure_handle(c), NotOK)
    ELSE LET c1 == Native(c, "SGP_StartRecord", c.ir.handle)
         IN  IF r = SGP_OK
             THEN Return(Log([c1 EXCEPT
                                !.ir._record_callback = cb,
                                !.ir._recording_types = @ \cup {video_type},
                                !.ir.sdk_record_callback[video_type] = cb],
                             "info: Start record successes"), SGP_OK)
             ELSE Return(Log(c1, "error: Start record failed"), NotOK)

stop_record(c, video_type) ==
    IF c.ir.handle = None \/ video_type \notin c.ir._recording_types
    THEN Return(Log(c, "warning: Already close record type"), SGP_OK)
    ELSE LET c1 == Native(c, "SGP_StopRecord", c.ir.handle)
             c2 == [c1 EXCEPT
                      !.ir._recording_types = @ \ {video_type},
                      !.ir.sdk_record_callback[video_type] = 0]
             c3 == IF c2.ir._recording_types = {}
                   THEN [c2 EXCEPT !.ir._record_callback = 0]
                   ELSE c2
         IN  Return(Log(c3, "info: Close record type"), SGP_OK)

get_heatmap(c, r) ==
    IF _ensure_handle(c).ret # SGP_OK
    THEN Return(_ensure_handle(c), NotOK)
    ELSE LET c1 == Native(c, "SGP_GetHeatMap", c.ir.handle)
         IN  IF r = SGP_OK
             THEN Return(Log(c1, "info: Get heatmap successes"), SGP_OK)
             ELSE Return(Log(c1, "error: Get heatmap failed"), NotOK)

get_image_temps(c, r) ==
    IF _ensure_handle(c).ret # SGP_OK
    THEN ReturnVal(_ensure_handle(c), NotOK, "None")
    ELSE LET c1 == Native(c, "SGP_GetImageTemps", c.ir.handle)
         IN  IF r = SGP_OK
             THEN ReturnVal(Log(c1, "info: Get image temps successes"),
                            SGP_OK, "list")
             ELSE ReturnVal(Log(c1, "error: Get image temps failed"),
                            NotOK, "None")

\* IRCameraParam setters: text 2 stands for an illegal text of the server,
\* the user name and the password
set_server(c, server) ==
    IF server = 2
    THEN Return(Log(c, "error: Set server failed"), NotOK)
    ELSE Return(Log([c EXCEPT !.ir.param.server = server],
                    "info: Set server successes"), SGP_OK)

\* set_port that takes port 0
set_port_accepts_zero(c, port) ==
    IF int_raises(port)
    THEN Return(Log(c, "error: Set port failed: illegal parameter"), NotOK)
    ELSE IF int_of(port) < 0 \/ int_of(port) > 65535
    THEN Return(Log(c, "error: Set port failed: not a valid port"), NotOK)
    ELSE Return(Log([c EXCEPT !.ir.param.port = int_of(port)],
                    "info: Set port successes"), SGP_OK)

\* p = int(port); 1 <= p <= 65535
set_port(c, port) ==
    IF int_raises(port)
    THEN Return(Log(c, "error: Set port failed: illegal parameter"), NotOK)
    ELSE IF int_of(port) < 1 \/ int_of(port) > 65535
    THEN Return(Log(c, "error: Set port failed: not a valid port"), NotOK)
    ELSE Return(Log([c EXCEPT !.ir.param.port = int_of(port)],
                    "info: Set port successes"), SGP_OK)

set_username(c, username) ==
    IF username = 2
    THEN Return(Log(c, "error: Set username failed"), NotOK)
    ELSE Return(Log([c EXCEPT !.ir.param.username = username],
                    "info: Set username successes"), SGP_OK)

set_password(c, password) ==
    IF password = 2
    THEN Return(Log(c, "error: Set password failed"), NotOK)
    ELSE Return(Log([c EXCEPT !.ir.param.password = password],
                    "info: Set password successes"), SGP_OK)

(***************************************************************************)
(* CameraOperation (driver/hikrobot/CamOperation_class.py)                 *)
(***************************************************************************)
\* a freshly constructed CameraOperation: the constructor's defaults
CameraOperation(n_connect_num) ==
    [n_connect_num |-> n_connect_num, b_open_device |-> FALSE,
     b_start_grabbing |-> FALSE, b_thread_closed |-> FALSE, b_exit |-> FALSE]

Stop_thread(c) == Native(c, "PyThreadState_SetAsyncExc", NoHandle)

\* rc, ro: results of MV_CC_CreateHandle and MV_CC_OpenDevice;
\* gige: the device is a GigE one; pkt: MV_CC_GetOptimalPacketSize > 0
Open_device(c, rc, ro, gige, pkt) ==
    IF ~c.rgb.obj.b_open_device
    THEN IF c.rgb.obj.n_connect_num < 0
         THEN Return(c, MV_E_CALLORDER)
         ELSE LET c1 == Native(c, "MV_CC_CreateHandle", NoHandle)
              IN  IF rc # 0
                  THEN Return(Native(c1, "MV_CC_DestroyHandle", NoHandle), rc)
                  ELSE LET c2 == Native(c1, "MV_CC_OpenDevice", NoHandle)
                       IN  IF ro # 0
                           THEN Return(c2, ro)
                           ELSE LET c3 == [c2 EXCEPT
                                             !.rgb.obj.b_open_device = TRUE,
                                             !.rgb.obj.b_thread_closed = FALSE]
                                    c4 == IF gige
                                          THEN LET g == Native(c3,
                                                 "MV_CC_GetOptimalPacketSize",
                                                 NoHandle)
                                               IN IF pkt
                                                  THEN Native(g,
                                                    "MV_CC_SetIntValue",
                                                    NoHandle)
                                                  ELSE g
                                          ELSE c3
                                    c5 == Native(c4, "MV_CC_GetBoolValue",
                                                 NoHandle)
                                    c6 == Native(c5, "MV_CC_SetEnumValue",
                                                 NoHandle)
                                IN  Return(c6, MV_OK)
    ELSE Return(c, None)

\* Start_grabbing that marks the stream started although the SDK refused
Start_grabbing_marks_failed_start(c, r) ==
    IF ~c.rgb.obj.b_start_grabbing /\ c.rgb.obj.b_open_device
    THEN LET c1 == Native([c EXCEPT !.rgb.obj.b_exit = FALSE],
                          "MV_CC_StartGrabbing", NoHandle)
         IN  IF r # 0
             THEN Return([c1 EXCEPT !.rgb.obj.b_start_grabbing = TRUE], r)
             ELSE Return([c1 EXCEPT !.rgb.obj.b_start_grabbing = TRUE,
                                    !.rgb.obj.b_thread_closed = TRUE], MV_OK)
    ELSE Return(c, MV_E_CALLORDER)

Start_grabbing(c, r) ==
    IF ~c.rgb.obj.b_start_grabbing /\ c.rgb.obj.b_open_device
    THEN LET c1 == Native([c EXCEPT !.rgb.obj.b_exit = FALSE],
                          "MV_CC_StartGrabbing", NoHandle)
         IN  IF r # 0
             THEN Return(c1, r)
             ELSE Return([c1 EXCEPT !.rgb.obj.b_start_grabbing = TRUE,
                                    !.rgb.obj.b_thread_closed = TRUE], MV_OK)
    ELSE Return(c, MV_E_CALLORDER)

Stop_grabbing(c, r) ==
    IF c.rgb.obj.b_start_grabbing /\ c.rgb.obj.b_open_device
    THEN LET c1 == IF c.rgb.obj.b_thread_closed
                   THEN [Stop_thread(c) EXCEPT
                            !.rgb.obj.b_thread_closed = FALSE]
                   ELSE c
             c2 == Native(c1, "MV_CC_StopGrabbing", NoHandle)
         IN  IF r # 0
             THEN Return(c2, r)
             ELSE Return([c2 EXCEPT !.rgb.obj.b_start_grabbing = FALSE,
                                    !.rgb.obj.b_exit = TRUE], MV_OK)
    ELSE Return(c, MV_E_CALLORDER)

Close_device(c, r) ==
    LET c1 == IF c.rgb.obj.b_open_device /\ c.rgb.obj.b_thread_closed
              THEN [Stop_thread(c) EXCEPT !.rgb.obj.b_thread_closed = FALSE]
              ELSE c
        c2 == IF c.rgb.obj.b_open_device
              THEN Native(c1, "MV_CC_CloseDevice", NoHandle)
              ELSE c1
    IN  IF c.rgb.obj.b_open_device /\ r # 0
        THEN Return(c2, r)
        ELSE Return([Native(c2, "MV_CC_DestroyHandle", NoHandle) EXCEPT
                        !.rgb.obj.b_open_device = FALSE,
                        !.rgb.obj.b_start_grabbing = FALSE,
                        !.rgb.obj.b_exit = TRUE], MV_OK)

Set_trigger_mode(c, is_trigger_mode, r1, r2) ==
    IF ~c.rgb.obj.b_open_device
    THEN Return(c, MV_E_CALLORDER)
    ELSE LET c1 == Native(c, "MV_CC_SetEnumValue", NoHandle)
         IN  IF r1 # 0
             THEN Return(c1, r1)
             ELSE IF ~is_trigger_mode
             THEN Return(c1, MV_OK)
             ELSE LET c2 == Native(c1, "MV_CC_SetEnumValue", NoHandle)
                  IN  IF r2 # 0 THEN Return(c2, r2) ELSE Return(c2, MV_OK)

\* r1, r2, r3: results of the three MV_CC_GetFloatValue calls
Get_parameter(c, r1, r2, r3) ==
    IF c.rgb.obj.b_open_device
    THEN LET c1 == Native(c, "MV_CC_GetFloatValue", NoHandle)
             c2 == Native(c1, "MV_CC_GetFloatValue", NoHandle)
             c3 == Native(c2, "MV_CC_GetFloatValue", NoHandle)
         IN  IF r1 # 0 THEN Return(c1, r1)
             ELSE IF r2 # 0 THEN Return(c2, r2)
             ELSE IF r3 # 0 THEN Return(c3, r3)
             ELSE Return(c3, MV_OK)
    ELSE Return(c, None)

\* re, rg, rf: results of the MV_CC_SetFloatValue calls for the exposure
\* time, the gain and the frame rate; the result of MV_CC_SetEnumValue is
\* overwritten.  str() of a number is never empty.
Set_parameter(c, re, rg, rf) ==
    IF c.rgb.obj.b_open_device
    THEN LET c0 == Native(c, "MV_CC_SetEnumValue", NoHandle)
             c1 == Native(c0, "MV_CC_SetFloatValue", NoHandle)
             c2 == Native(c1, "MV_CC_SetFloatValue", NoHandle)
             c3 == Native(c2, "MV_CC_SetFloatValue", NoHandle)
         IN  IF re # 0 THEN Return(c1, re)
             ELSE IF rg # 0 THEN Return(c2, rg)
             ELSE IF rf # 0 THEN Return(c3, rf)
             ELSE Return(c3, MV_OK)
    ELSE Return(c, None)

(***************************************************************************)
(* RGBCameraParam (driver/hikDriver.py)                                    *)
(***************************************************************************)
\* RGBCameraParam.__init__
RGBCameraParam ==
    [exposure_time |-> PyInt(-1), gain |-> PyInt(-1),
     frame_rate |-> PyInt(-1)]

\* the fCurValue floats Get_parameter reads from the camera
DeviceParam ==
    [exposure_time |-> PyFloat(200000), gain |-> PyFloat(0),
     frame_rate |-> PyFloat(300)]

reset_param(c) == [c EXCEPT !.rgb.param = RGBCameraParam]

\* set_exposure_time with an open upper end
set_exposure_time_excludes_20000(c, exposure_time) ==
    IF ~isinstance_int(exposure_time)
       \/ ~(150 <= exposure_time.tenths /\ exposure_time.tenths < 200000)
    THEN Return(Log(c, "error: Set exposure time failed"), NotOK)
    ELSE Return(Log([c EXCEPT !.rgb.param.exposure_time = exposure_time],
                    "info: Set exposure time successes"), MV_OK)

\* 15 <= exposure_time <= 20000
set_exposure_time(c, exposure_time) ==
    IF ~isinstance_int(exposure_time)
       \/ ~(150 <= exposure_time.tenths /\ exposure_time.tenths <= 200000)
    THEN Return(Log(c, "error: Set exposure time failed"), NotOK)
    ELSE Return(Log([c EXCEPT !.rgb.param.exposure_time = exposure_time],
                    "info: Set exposure time successes"), MV_OK)

\* 0 <= gain <= 17
set_gain(c, gain) ==
    IF ~isinstance_int(gain) \/ ~(0 <= gain.tenths /\ gain.tenths <= 170)
    THEN Return(Log(c, "error: Set gain failed"), NotOK)
    ELSE Return(Log([c EXCEPT !.rgb.param.gain = gain],
                    "info: Set gain successes"), MV_OK)

\* 0.1 <= frame_rate <= 80.0
set_frame_rate(c, frame_rate) ==
    IF ~isinstance_float(frame_rate)
       \/ ~(1 <= frame_rate.tenths /\ frame_rate.tenths <= 800)
    THEN Return(Log(c, "error: Set frame rate failed"), NotOK)
    ELSE Return(Log([c EXCEPT !.rgb.param.frame_rate = frame_rate],
                    "info: Set frame rate successes"), MV_OK)

(***************************************************************************)
(* RGBCamera (driver/hikDriver.py)                                         *)
(***************************************************************************)
\* r: result of MV_CC_EnumDevices; n: nDeviceNum
hk_enum_devices(c, r, n) ==
    LET c1 == Native(c, "MV_CC_EnumDevices", NoHandle)
    IN  IF r # MV_OK
        THEN Return(Log(c1, "error: Enumerate device list failed"), NotOK)
        ELSE IF n = 0
        THEN Return(Log(c1, "warning: No device found"), NotOK)
        ELSE Return(Log(c1, "info: Found device(s)"), MV_OK)

\* To_hex_str(None) raises TypeError on `num < 0`
hk_get_param(c, r1, r2, r3) ==
    IF ~c.rgb.hk_obj_cam_operation
    THEN Raise(c)
    ELSE LET c1 == Get_parameter(c, r1, r2, r3)
         IN  IF c1.ret = None
             THEN Raise(Log(c1, "TypeError: To_hex_str"))
             ELSE IF c1.ret # MV_OK
             THEN Return(Log(c1, "error: Get param failed"), NotOK)
             ELSE Return(Log([c1 EXCEPT !.rgb.param = DeviceParam],
                             "info: Get param succeeded"), MV_OK)

hk_set_param(c, re, rg, rf) ==
    IF ~c.rgb.hk_obj_cam_operation
    THEN Raise(Log(c, "AttributeError: Set_parameter"))
    ELSE LET c1 == Set_parameter(c, re, rg, rf)
         IN  IF c1.ret = None
             THEN Raise(Log(c1, "TypeError: To_hex_str"))
             ELSE IF c1.ret # MV_OK
             THEN Return(Log(c1, "error: Set param failed"), NotOK)
             ELSE Return(Log(c1, "info: Set param succeeded"), MV_OK)

hk_set_continue_mode(c, r) ==
    LET c1 == Set_trigger_mode(c, FALSE, r, 0)
    IN  IF c1.ret # MV_OK
        THEN Return(Log(c1, "error: Set trigger mode failed"), NotOK)
        ELSE Return(Log(c1, "info: Set trigger mode succeeded"), MV_OK)

hk_open_device(c, nSelCamIndex, rc, ro, gige, pkt, rt) ==
    IF c.rgb.logged_in
    THEN Return(Log(c, "warning: Already logged in"), NotOK)
    ELSE IF nSelCamIndex < 0
    THEN Return(Log(c, "error: no device selected"), NotOK)
    ELSE LET c1 == [c EXCEPT !.rgb.hk_obj_cam_operation = TRUE,
                             !.rgb.obj = CameraOperation(nSelCamIndex)]
             c2 == Open_device(c1, rc, ro, gige, pkt)
         IN  IF c2.ret # MV_OK
             THEN Return(Log([c2 EXCEPT !.rgb.logged_in = FALSE],
                             "error: Open device failed"), NotOK)
             ELSE LET c3 == hk_set_continue_mode(c2, rt)
                  IN  Return(Log([c3 EXCEPT !.rgb.logged_in = TRUE],
                                 "info: Open device succeeded"), MV_OK)

hk_start_grabbing(c, r) ==
    IF ~c.rgb.logged_in
    THEN Return(Log(c, "error: Start grabbing failed: not logged in"), NotOK)
    ELSE IF c.rgb.video_opened
    THEN Return(Log(c, "warning: Already started grabbing"), MV_OK)
    ELSE LET c1 == Start_grabbing(c, r)
         IN  IF c1.ret # 0
             THEN Return(Log(c1, "error: Start grabbing failed"), NotOK)
             ELSE Return(Log([c1 EXCEPT !.rgb.video_opened = TRUE],
                             "info: Start grabbing succeeded"), MV_OK)

\* hk_stop_grabbing that raises when the SDK refuses to stop
hk_stop_grabbing_raises_on_failure(c, r) ==
    IF ~c.rgb.hk_obj_cam_operation
    THEN Raise(c)
    ELSE LET c1 == Stop_grabbing(c, r)
             c2 == [c1 EXCEPT !.rgb.video_opened = FALSE]
         IN  IF c1.ret # MV_OK
             THEN Raise(Log(c2, "error: Stop grabbing failed"))
             ELSE Return(Log(c2, "info: Stop grabbing succeeded"), MV_OK)

\* hk_obj_cam_operation is None until the first hk_open_device: the
\* attribute access on None raises AttributeError
hk_stop_grabbing(c, r) ==
    IF ~c.rgb.hk_obj_cam_operation
    THEN Raise(c)
    ELSE LET c1 == Stop_grabbing(c, r)
             c2 == [c1 EXCEPT !.rgb.video_opened = FALSE]
         IN  IF c1.ret # MV_OK
             THEN Return(Log(c2, "error: Stop grabbing failed"), NotOK)
             ELSE Return(Log(c2, "info: Stop grabbing succeeded"), MV_OK)

\* hk_save_jpg passes file_path to CameraOperation.Save_jpg, which is
\* declared Save_jpg(self): the call raises TypeError before Save_jpg runs
\* and before MV_CC_SaveImageToFileEx is reached (AttributeError when
\* hk_obj_cam_operation is still None).  The traceback goes to the log.
hk_save_jpg(c) ==
    IF ~c.rgb.hk_obj_cam_operation
    THEN Raise(Log(c, "AttributeError: hk_save_jpg"))
    ELSE Raise(Log(c, "TypeError: Save_jpg() takes 1 positional argument"))

hk_close_device(c, rs, rcl) ==
    IF ~c.rgb.logged_in
    THEN Return(Log(c, "warning: Already logged out"), MV_OK)
    ELSE LET c1 == hk_stop_grabbing(c, rs)
         IN  IF c1.raised
             THEN c1
             ELSE LET c2 == Close_device(
                              [c1 EXCEPT !.rgb.video_opened = FALSE], rcl)
                  IN  Return(Log([c2 EXCEPT !.rgb.logged_in = FALSE],
                                 "info: Logged out succeeded"), MV_OK)

(***************************************************************************)
(* Initial state: Window.__init__ has constructed both drivers             *)
(***************************************************************************)
\* server, username and password are one of two legal values each: 0, the
\* default of the constructor, and 1, another legal text; port is an int
IRCameraParam == [server |-> 0, port |-> 80, username |-> 0, password |-> 0]

\* IRCamera.__init__ followed by _init_device with SGP_InitDevice returning h
\* sdk_record_callback is not a field of IRCamera: it is the callback
\* object the native layer holds for each recording type (0: none), as
\* SGP_StartRecord and SGP_StopRecord leave it.  _record_callback is the
\* identity of the object the session references (0: None).
IRCamera(h) ==
    [param |-> IRCameraParam, handle |-> h, _logged_in |-> FALSE,
     _video_opened |-> FALSE, _video_callback |-> FALSE,
     _record_callback |-> 0, _recording_types |-> {},
     sdk_record_callback |-> [t \in VideoTypes |-> 0]]

\* StoreManage.__init__: every store option is on
StoreManage ==
    [save_rgb_img |-> TRUE, save_ir_img |-> TRUE, save_ir_temp |-> TRUE]

RGBCamera ==
    [param |-> RGBCameraParam, hk_obj_cam_operation |-> FALSE,
     obj |-> CameraOperation(0), logged_in |-> FALSE, video_opened |-> FALSE]

Ctx == [ir |-> ir, rgb |-> rgb, calls |-> <<>>, log |-> <<>>,
        ret |-> 0, val |-> "None", raised |-> FALSE]

\* The checked state of the three toggle buttons and the enabled state of
\* the open button come from the generated Ui classes.
InitWindow ==
    /\ \E h \in {0} \cup Handles : ir = IRCamera(h)
    /\ rgb = RGBCamera
    /\ rgbOpenFlag = FALSE /\ rgbBusyFlag = FALSE
    /\ irOpenFlag = FALSE /\ irBusyFlag = FALSE
    /\ hikOpenButton \in BOOLEAN
    /\ guideLoadButton \in BOOLEAN
    /\ stateStartButton \in BOOLEAN
    /\ hikEnumComboBox = -1
    /\ hikOpenButtonEnabled \in BOOLEAN
    /\ hikParamEnabled \in BOOLEAN
    /\ running = TRUE
    /\ storeManage = StoreManage
    /\ dragDropAreaEnabled = TRUE
    /\ renderThread = <<>>
    /\ render_context = [type |-> "None", files |-> 0, status |-> 0]
    /\ threads = <<>>
    /\ events = <<>>
    /\ calls = <<>> /\ log = <<>>
    /\ op = [name |-> "__init__", ret |-> 0, raised |-> FALSE,
             val |-> "None"]
    /\ pre = [ir |-> ir, rgb |-> rgb, rgbOpenFlag |-> FALSE,
              rgbBusyFlag |-> FALSE, irOpenFlag |-> FALSE,
              irBusyFlag |-> FALSE, stateStartButton |-> stateStartButton]

\* no path has been handed to render_temp2img
NoPath == [kind |-> "missing", docs |-> <<>>]
NotCalled ==
    [pc |-> "called", count |-> 0, steps |-> <<>>, result |-> None,
     log |-> <<>>]

\* normalize has not been called
NotNormalized == [pc |-> "called", out |-> <<>>]

\* the grabbing side of a CameraOperation: the Work_thread threads it has
\* started (pc: the statement a thread is at, exc: a SystemExit is pending
\* for it), h_thread_handle (0: None), buf_lock (Unlocked or the thread
\* that acquired it), buf_save_image, and where the control thread is in
\* Save_jpg
MainThread == 0
Unlocked == -1
NoGrab ==
    [threads |-> <<>>, h_thread_handle |-> 0, buf_lock |-> Unlocked,
     buf_save_image |-> "None", main |-> "idle"]

Init ==
    /\ InitWindow
    /\ path = NoPath
    /\ temp2img = NotCalled
    /\ data_normalized = NotNormalized
    /\ grab = NoGrab
    /\ args = PyNone

\* the state an operation started from
Pre == [ir |-> ir, rgb |-> rgb, rgbOpenFlag |-> rgbOpenFlag,
        rgbBusyFlag |-> rgbBusyFlag, irOpenFlag |-> irOpenFlag,
        irBusyFlag |-> irBusyFlag, stateStartButton |-> stateStartButton]

\* Outcomes of the backend during Open_device and hk_set_continue_mode: a
\* native call that is not reached has no outcome.
\* g = <<GigE device, MV_CC_GetOptimalPacketSize() > 0>>
PacketCases == {<<FALSE, FALSE>>, <<TRUE, FALSE>>, <<TRUE, TRUE>>}

OpenCases ==
    {[rc |-> e, ro |-> 0, g |-> <<FALSE, FALSE>>, rt |-> 0] :
        e \in Codes \ {0}}
    \cup {[rc |-> 0, ro |-> e, g |-> <<FALSE, FALSE>>, rt |-> 0] :
        e \in Codes \ {0}}
    \cup {[rc |-> 0, ro |-> 0, g |-> g, rt |-> rt] :
        g \in PacketCases, rt \in Codes}

\* Outcomes of the three MV_CC_GetFloatValue calls of Get_parameter
GetParamCases ==
    {<<0, 0, 0>>} \cup UNION {{<<e, 0, 0>>, <<0, e, 0>>, <<0, 0, e>>} :
                              e \in Codes \ {0}}

\* Outcomes of the three MV_CC_SetFloatValue calls of Set_parameter
SetParamCases ==
    {<<0, 0, 0>>} \cup UNION {{<<e, 0, 0>>, <<0, e, 0>>, <<0, 0, e>>} :
                              e \in Codes \ {0}}

\* the session classes alone: the widgets play no part
InitDrv ==
    /\ Init
    /\ ~hikOpenButton /\ ~guideLoadButton /\ ~stateStartButton
    /\ hikOpenButtonEnabled

(***************************************************************************)
(* SpecDrv: the session methods called directly, in any order              *)
(***************************************************************************)
Call(name, c) ==
    /\ ir' = c.ir
    /\ rgb' = c.rgb
    /\ calls' = c.calls
    /\ log' = c.log
    /\ op' = [name |-> name, ret |-> c.ret, raised |-> c.raised,
              val |-> c.val]
    /\ pre' = Pre
    /\ UNCHANGED rendervars
    /\ UNCHANGED fnvars
    /\ UNCHANGED args

\* a call whose input v (an argument, or what the backend answers) is kept
\* in args
CallWith(name, c, v) ==
    /\ ir' = c.ir
    /\ rgb' = c.rgb
    /\ calls' = c.calls
    /\ log' = c.log
    /\ op' = [name |-> name, ret |-> c.ret, raised |-> c.raised,
              val |-> c.val]
    /\ pre' = Pre
    /\ args' = v
    /\ UNCHANGED <<rendervars, fnvars>>

Call_init_device == \E h \in {0} \cup Handles :
    Call("_init_device", _init_device(Ctx, h)) /\ UNCHANGED winvars

Call_login == \E r \in Codes :
    Call("login", login(Ctx, r)) /\ UNCHANGED winvars

Call_logout == \E r \in Codes :
    Call("logout", logout(Ctx, r)) /\ UNCHANGED winvars

Call_release ==
    Call("release", release(Ctx)) /\ UNCHANGED winvars

Call_del == \E r \in Codes :
    Call("__del__", __del__(Ctx, r)) /\ UNCHANGED winvars

Call_get_thermometry_param == \E r \in Codes :
    CallWith("get_thermometry_param", get_thermometry_param(Ctx, r),
             PyInt(r))
    /\ UNCHANGED winvars

Call_set_thermometry_param == \E r \in Codes :
    Call("set_thermometry_param", set_thermometry_param(Ctx, r))
    /\ UNCHANGED winvars

Call_set_focus == \E r \in Codes :
    Call("set_focus", set_focus(Ctx, r)) /\ UNCHANGED winvars

Call_hk_get_param == \E p \in GetParamCases :
    Call("hk_get_param", hk_get_param(Ctx, p[1], p[2], p[3]))
    /\ UNCHANGED winvars

Call_hk_set_param == \E p \in SetParamCases :
    Call("hk_set_param", hk_set_param(Ctx, p[1], p[2], p[3]))
    /\ UNCHANGED winvars

Call_hk_save_jpg ==
    Call("hk_save_jpg", hk_save_jpg(Ctx)) /\ UNCHANGED winvars

Call_open_ir_video == \E r \in Codes :
    Call("open_ir_video", open_ir_video(Ctx, r)) /\ UNCHANGED winvars

Call_close_ir_video ==
    Call("close_ir_video", close_ir_video(Ctx)) /\ UNCHANGED winvars

Call_hk_open_device ==
    \E nSelCamIndex \in {-1, 0}, o \in OpenCases :
        /\ Call("hk_open_device",
                hk_open_device(Ctx, nSelCamIndex, o.rc, o.ro,
                               o.g[1], o.g[2], o.rt))
        /\ UNCHANGED winvars

Call_hk_start_grabbing == \E r \in Codes :
    Call("hk_start_grabbing", hk_start_grabbing(Ctx, r)) /\ UNCHANGED winvars

Call_hk_stop_grabbing == \E r \in Codes :
    Call("hk_stop_grabbing", hk_stop_grabbing(Ctx, r)) /\ UNCHANGED winvars

Call_hk_close_device == \E rs, rcl \in Codes :
    Call("hk_close_device", hk_close_device(Ctx, rs, rcl))
    /\ UNCHANGED winvars

NextDrv ==
    \/ Call_init_device
    \/ Call_login
    \/ Call_logout
    \/ Call_release
    \/ Call_del
    \/ Call_get_thermometry_param
    \/ Call_set_thermometry_param
    \/ Call_set_focus
    \/ Call_hk_get_param
    \/ Call_hk_set_param
    \/ Call_hk_save_jpg
    \/ Call_open_ir_video
    \/ Call_close_ir_video
    \/ Call_hk_open_device
    \/ Call_hk_start_grabbing
    \/ Call_hk_stop_grabbing
    \/ Call_hk_close_device

SpecDrv == InitDrv /\ [][NextDrv]_vars

(***************************************************************************)
(* Window (demo.py): the handlers of the three toggle buttons and of the   *)
(* enumerate button.  A handler is an operator on the world w: the driver  *)
(* context w.c and the controller's fields.  InfoBar notices are written   *)
(* to the log.                                                             *)
(***************************************************************************)
World ==
    [c |-> Ctx, rgbOpenFlag |-> rgbOpenFlag, rgbBusyFlag |-> rgbBusyFlag,
     irOpenFlag |-> irOpenFlag, irBusyFlag |-> irBusyFlag,
     hikOpenButton |-> hikOpenButton, guideLoadButton |-> guideLoadButton,
     stateStartButton |-> stateStartButton,
     hikEnumComboBox |-> hikEnumComboBox,
     hikOpenButtonEnabled |-> hikOpenButtonEnabled,
     hikParamEnabled |-> hikParamEnabled,
     storeManage |-> storeManage]

Drv(w, c) == [w EXCEPT !.c = c]

InfoBar(w, notice) == [w EXCEPT !.c = Log(@, notice)]

\* the three sliders of the visible-light page
hikParamFrozen(w) == [w EXCEPT !.hikParamEnabled = FALSE]

hikParamUnfrozen(w) == [w EXCEPT !.hikParamEnabled = TRUE]

hikEnumButtonClicked(w, r, n) ==
    IF w.rgbOpenFlag \/ w.rgbBusyFlag
    THEN InfoBar(w, "InfoBar.warning: close the camera before enumerating")
    ELSE LET c1 == hk_enum_devices(w.c, r, n)
         IN  IF c1.ret # 0
             THEN [InfoBar(Drv(w, c1), "InfoBar.warning: enumerate failed")
                     EXCEPT !.hikEnumComboBox = -1,
                            !.hikOpenButtonEnabled = FALSE]
             ELSE [Drv(w, c1) EXCEPT !.hikEnumComboBox = 0,
                                     !.hikOpenButtonEnabled = TRUE]

\* checked: the state the click toggled the button to.
\* r1, r2: hk_stop_grabbing / Close_device results when closing,
\*         MV_CC_CreateHandle / MV_CC_OpenDevice results when opening;
\* g: packet-size case; rt: trigger-mode result; p: Get_parameter results
hikOpenButtonClicked(w, checked, r1, r2, g, rt, p) ==
    LET w0 == [w EXCEPT !.hikOpenButton = checked]
    IN
    IF checked
    THEN IF w0.rgbBusyFlag
         THEN [InfoBar(w0, "InfoBar.warning: stop sampling before closing")
                 EXCEPT !.hikOpenButton = FALSE]
         ELSE IF w0.rgbOpenFlag
         THEN LET c1 == hk_close_device(w0.c, r1, r2)
              IN  IF c1.raised
                  THEN Drv(w0, c1)
                  ELSE hikParamFrozen([Drv(w0, reset_param(c1))
                                         EXCEPT !.rgbOpenFlag = FALSE])
         ELSE hikParamFrozen(InfoBar(w0, "InfoBar.info: repeated close"))
    ELSE IF w0.rgbOpenFlag
         THEN hikParamUnfrozen(InfoBar(w0, "InfoBar.info: repeated open"))
         ELSE IF w0.hikEnumComboBox < 0
         THEN [InfoBar(w0, "InfoBar.error: no camera selected")
                 EXCEPT !.hikOpenButton = TRUE]
         ELSE LET c1 == hk_open_device(w0.c, w0.hikEnumComboBox,
                                       r1, r2, g[1], g[2], rt)
              IN  IF c1.ret # 0
                  THEN LET w1 == InfoBar(Drv(w0, c1),
                                         "InfoBar.error: open failed")
                           c2 == hk_close_device(w1.c, 0, 0)
                       IN  IF c2.raised
                           THEN Drv(w1, c2)
                           ELSE [Drv(w1, c2) EXCEPT !.hikOpenButton = TRUE]
                  ELSE LET c2 == hk_get_param(c1, p[1], p[2], p[3])
                           w1 == [Drv(w0, c2) EXCEPT !.rgbOpenFlag = TRUE]
                       IN  IF c2.raised THEN w1 ELSE hikParamUnfrozen(w1)

\* value: the slider's value; r: the results of the three
\* MV_CC_SetFloatValue calls.  The result of the setter is dropped.
hikGainSliderReleased(w, value, r) ==
    Drv(w, hk_set_param(set_gain(w.c, value), r[1], r[2], r[3]))

hikExposeSliderReleased(w, value, r) ==
    Drv(w, hk_set_param(set_exposure_time(w.c, value), r[1], r[2], r[3]))

hikFrameRateSliderReleased(w, value, r) ==
    Drv(w, hk_set_param(set_frame_rate(w.c, value), r[1], r[2], r[3]))

\* t: the texts of the four line edits; rl, ro: login and logout results;
\* rp: SGP_GetThermometryParam result
guideLoadButtonClicked(w, checked, t, rl, ro, rp) ==
    LET w0 == [w EXCEPT !.guideLoadButton = checked]
    IN
    IF checked
    THEN IF w0.irBusyFlag
         THEN [InfoBar(w0, "InfoBar.warning: stop sampling before closing")
                 EXCEPT !.guideLoadButton = FALSE]
         ELSE IF w0.irOpenFlag
         THEN [Drv(w0, logout(w0.c, ro)) EXCEPT !.irOpenFlag = FALSE]
         ELSE InfoBar(w0, "InfoBar.info: repeated close")
    ELSE IF w0.irOpenFlag
         THEN InfoBar(w0, "InfoBar.info: repeated open")
         ELSE LET c1 == set_server(w0.c, t.server)
                  c2 == set_port(c1, t.port)
                  c3 == set_username(c2, t.username)
                  c4 == set_password(c3, t.password)
                  ret == IF c1.ret # 0 \/ c2.ret # 0 \/ c3.ret # 0
                            \/ c4.ret # 0 THEN 1 ELSE 0
              IN  IF ret # 0
                  THEN [InfoBar(Drv(w0, c4),
                                "InfoBar.error: illegal login parameters")
                          EXCEPT !.guideLoadButton = TRUE]
                  ELSE LET c5 == login(c4, rl)
                       IN  IF c5.ret # 0
                           THEN [Drv(InfoBar(Drv(w0, c5),
                                       "InfoBar.error: open failed"),
                                     logout(Log(c5,
                                       "InfoBar.error: open failed"), ro))
                                   EXCEPT !.guideLoadButton = TRUE]
                           ELSE LET w1 == [Drv(w0, c5) EXCEPT
                                             !.irOpenFlag = TRUE]
                                    c6 == get_thermometry_param(c5, rp)
                                IN  IF c6.ret # 0
                                    THEN InfoBar(Drv(w1, c6),
                                     "InfoBar.warning: get thermometry failed")
                                    ELSE IF c6.val = "tuple"
                                    THEN Drv(w1, Raise(c6))
                                    ELSE Drv(w1, c6)

\* startButtonClicked whose start branch does not ask for an open camera
startButtonClicked_starts_unopened(w, checked, r1, r2) ==
    LET w0 == [w EXCEPT !.stateStartButton = checked]
    IN
    IF checked
    THEN IF ~w0.rgbBusyFlag /\ ~w0.irBusyFlag
         THEN InfoBar(w0, "InfoBar.info: repeated stop sampling")
         ELSE LET c1 == IF w0.rgbBusyFlag
                        THEN hk_stop_grabbing(w0.c, r1)
                        ELSE w0.c
                  w1 == IF w0.rgbBusyFlag
                        THEN [(IF c1.ret # 0
                               THEN InfoBar(Drv(w0, c1),
                                   "InfoBar.warning: RGB stop sampling failed")
                               ELSE Drv(w0, c1))
                                EXCEPT !.rgbBusyFlag = FALSE]
                        ELSE w0
              IN  IF c1.raised
                  THEN Drv(w0, c1)
                  ELSE IF w1.irBusyFlag
                  THEN LET c2 == close_ir_video(w1.c)
                       IN  [(IF c2.ret # 0
                             THEN InfoBar(Drv(w1, c2),
                                   "InfoBar.warning: IR stop sampling failed")
                             ELSE Drv(w1, c2))
                              EXCEPT !.irBusyFlag = FALSE]
                  ELSE w1
    ELSE IF w0.rgbBusyFlag \/ w0.irBusyFlag
         THEN InfoBar(w0, "InfoBar.info: repeated start")
         ELSE IF w0.rgbOpenFlag /\ w0.irOpenFlag
         THEN LET c1 == hk_start_grabbing(w0.c, r1)
              IN  IF c1.ret # 0
                  THEN LET w1 == InfoBar(Drv(w0, c1),
                                   "InfoBar.error: RGB start sampling failed")
                           c2 == hk_stop_grabbing(w1.c, r2)
                       IN  IF c2.raised
                           THEN Drv(w1, c2)
                           ELSE [Drv(w1, c2) EXCEPT !.stateStartButton = TRUE]
                  ELSE LET w1 == [Drv(w0, c1) EXCEPT !.rgbBusyFlag = TRUE]
                           c2 == open_ir_video(c1, r2)
                       IN  IF c2.ret # 0
                           THEN [Drv(w1, close_ir_video(Log(c2,
                                    "InfoBar.error: IR start sampling failed")))
                                   EXCEPT !.stateStartButton = TRUE]
                           ELSE [Drv(w1, c2) EXCEPT !.irBusyFlag = TRUE]
         ELSE IF w0.rgbOpenFlag
         THEN LET c1 == hk_start_grabbing(w0.c, r1)
              IN  IF c1.ret # 0
                  THEN LET w1 == InfoBar(Drv(w0, c1),
                                   "InfoBar.error: RGB start sampling failed")
                           c2 == hk_stop_grabbing(w1.c, r2)
                       IN  IF c2.raised
                           THEN Drv(w1, c2)
                           ELSE [Drv(w1, c2) EXCEPT !.stateStartButton = TRUE]
                  ELSE [Drv(w0, c1) EXCEPT !.rgbBusyFlag = TRUE]
         ELSE IF TRUE
         THEN LET c1 == open_ir_video(w0.c, r1)
              IN  IF c1.ret # 0
                  THEN [Drv(w0, close_ir_video(Log(c1,
                           "InfoBar.error: IR start sampling failed")))
                          EXCEPT !.stateStartButton = TRUE]
                  ELSE [Drv(w0, c1) EXCEPT !.irBusyFlag = TRUE]
         ELSE [InfoBar(w0, "InfoBar.warning: open at least one camera")
                 EXCEPT !.stateStartButton = TRUE]

\* startButtonClicked whose stop branch stops the visible-light camera
\* whatever the busy flags say
startButtonClicked_stops_idle(w, checked, r1, r2) ==
    LET w0 == [w EXCEPT !.stateStartButton = checked]
    IN
    IF checked
    THEN IF FALSE
         THEN InfoBar(w0, "InfoBar.info: repeated stop sampling")
         ELSE LET c1 == IF TRUE
                        THEN hk_stop_grabbing(w0.c, r1)
                        ELSE w0.c
                  w1 == IF TRUE
                        THEN [(IF c1.ret # 0
                               THEN InfoBar(Drv(w0, c1),
                                   "InfoBar.warning: RGB stop sampling failed")
                               ELSE Drv(w0, c1))
                                EXCEPT !.rgbBusyFlag = FALSE]
                        ELSE w0
              IN  IF c1.raised
                  THEN Drv(w0, c1)
                  ELSE IF w1.irBusyFlag
                  THEN LET c2 == close_ir_video(w1.c)
                       IN  [(IF c2.ret # 0
                             THEN InfoBar(Drv(w1, c2),
                                   "InfoBar.warning: IR stop sampling failed")
                             ELSE Drv(w1, c2))
                              EXCEPT !.irBusyFlag = FALSE]
                  ELSE w1
    ELSE IF w0.rgbBusyFlag \/ w0.irBusyFlag
         THEN InfoBar(w0, "InfoBar.info: repeated start")
         ELSE IF w0.rgbOpenFlag /\ w0.irOpenFlag
         THEN LET c1 == hk_start_grabbing(w0.c, r1)
              IN  IF c1.ret # 0
                  THEN LET w1 == InfoBar(Drv(w0, c1),
                                   "InfoBar.error: RGB start sampling failed")
                           c2 == hk_stop_grabbing(w1.c, r2)
                       IN  IF c2.raised
                           THEN Drv(w1, c2)
                           ELSE [Drv(w1, c2) EXCEPT !.stateStartButton = TRUE]
                  ELSE LET w1 == [Drv(w0, c1) EXCEPT !.rgbBusyFlag = TRUE]
                           c2 == open_ir_video(c1, r2)
                       IN  IF c2.ret # 0
                           THEN [Drv(w1, close_ir_video(Log(c2,
                                    "InfoBar.error: IR start sampling failed")))
                                   EXCEPT !.stateStartButton = TRUE]
                           ELSE [Drv(w1, c2) EXCEPT !.irBusyFlag = TRUE]
         ELSE IF w0.rgbOpenFlag
         THEN LET c1 == hk_start_grabbing(w0.c, r1)
              IN  IF c1.ret # 0
                  THEN LET w1 == InfoBar(Drv(w0, c1),
                                   "InfoBar.error: RGB start sampling failed")
                           c2 == hk_stop_grabbing(w1.c, r2)
                       IN  IF c2.raised
                           THEN Drv(w1, c2)
                           ELSE [Drv(w1, c2) EXCEPT !.stateStartButton = TRUE]
                  ELSE [Drv(w0, c1) EXCEPT !.rgbBusyFlag = TRUE]
         ELSE IF w0.irOpenFlag
         THEN LET c1 == open_ir_video(w0.c, r1)
              IN  IF c1.ret # 0
                  THEN [Drv(w0, close_ir_video(Log(c1,
                           "InfoBar.error: IR start sampling failed")))
                          EXCEPT !.stateStartButton = TRUE]
                  ELSE [Drv(w0, c1) EXCEPT !.irBusyFlag = TRUE]
         ELSE [InfoBar(w0, "InfoBar.warning: open at least one camera")
                 EXCEPT !.stateStartButton = TRUE]

\* r1: MV_CC_StopGrabbing / MV_CC_StartGrabbing result;
\* r2: SGP_OpenIrVideo result, or the result of the stop that follows a
\*     failed visible-light start
startButtonClicked(w, checked, r1, r2) ==
    LET w0 == [w EXCEPT !.stateStartButton = checked]
    IN
    IF checked
    THEN IF ~w0.rgbBusyFlag /\ ~w0.irBusyFlag
         THEN InfoBar(w0, "InfoBar.info: repeated stop sampling")
         ELSE LET c1 == IF w0.rgbBusyFlag
                        THEN hk_stop_grabbing(w0.c, r1)
                        ELSE w0.c
                  w1 == IF w0.rgbBusyFlag
                        THEN [(IF c1.ret # 0
                               THEN InfoBar(Drv(w0, c1),
                                   "InfoBar.warning: RGB stop sampling failed")
                               ELSE Drv(w0, c1))
                                EXCEPT !.rgbBusyFlag = FALSE]
                        ELSE w0
              IN  IF c1.raised
                  THEN Drv(w0, c1)
                  ELSE IF w1.irBusyFlag
                  THEN LET c2 == close_ir_video(w1.c)
                       IN  [(IF c2.ret # 0
                             THEN InfoBar(Drv(w1, c2),
                                   "InfoBar.warning: IR stop sampling failed")
                             ELSE Drv(w1, c2))
                              EXCEPT !.irBusyFlag = FALSE]
                  ELSE w1
    ELSE IF w0.rgbBusyFlag \/ w0.irBusyFlag
         THEN InfoBar(w0, "InfoBar.info: repeated start")
         ELSE IF w0.rgbOpenFlag /\ w0.irOpenFlag
         THEN LET c1 == hk_start_grabbing(w0.c, r1)
              IN  IF c1.ret # 0
                  THEN LET w1 == InfoBar(Drv(w0, c1),
                                   "InfoBar.error: RGB start sampling failed")
                           c2 == hk_stop_grabbing(w1.c, r2)
                       IN  IF c2.raised
                           THEN Drv(w1, c2)
                           ELSE [Drv(w1, c2) EXCEPT !.stateStartButton = TRUE]
                  ELSE LET w1 == [Drv(w0, c1) EXCEPT !.rgbBusyFlag = TRUE]
                           c2 == open_ir_video(c1, r2)
                       IN  IF c2.ret # 0
                           THEN [Drv(w1, close_ir_video(Log(c2,
                                    "InfoBar.error: IR start sampling failed")))
                                   EXCEPT !.stateStartButton = TRUE]
                           ELSE [Drv(w1, c2) EXCEPT !.irBusyFlag = TRUE]
         ELSE IF w0.rgbOpenFlag
         THEN LET c1 == hk_start_grabbing(w0.c, r1)
              IN  IF c1.ret # 0
                  THEN LET w1 == InfoBar(Drv(w0, c1),
                                   "InfoBar.error: RGB start sampling failed")
                           c2 == hk_stop_grabbing(w1.c, r2)
                       IN  IF c2.raised
                           THEN Drv(w1, c2)
                           ELSE [Drv(w1, c2) EXCEPT !.stateStartButton = TRUE]
                  ELSE [Drv(w0, c1) EXCEPT !.rgbBusyFlag = TRUE]
         ELSE IF w0.irOpenFlag
         THEN LET c1 == open_ir_video(w0.c, r1)
              IN  IF c1.ret # 0
                  THEN [Drv(w0, close_ir_video(Log(c1,
                           "InfoBar.error: IR start sampling failed")))
                          EXCEPT !.stateStartButton = TRUE]
                  ELSE [Drv(w0, c1) EXCEPT !.irBusyFlag = TRUE]
         ELSE [InfoBar(w0, "InfoBar.warning: open at least one camera")
                 EXCEPT !.stateStartButton = TRUE]

\* rh, rt: results of SGP_GetHeatMap and SGP_GetImageTemps; wf: writing
\* the temperature file fails (open or json.dump raises)
stateGrabButtonClicked(w, rh, rt, wf) ==
    IF ~w.rgbBusyFlag /\ ~w.irBusyFlag
    THEN InfoBar(w, "InfoBar.warning: start sampling first")
    ELSE LET rgbTaken == w.rgbBusyFlag /\ w.storeManage.save_rgb_img
             c1 == IF rgbTaken THEN hk_save_jpg(w.c) ELSE w.c
         IN  IF c1.raised
             THEN Drv(w, c1)
             ELSE IF rgbTaken /\ c1.ret # 0
             THEN InfoBar(Drv(w, c1), "InfoBar.error: RGB snapshot failed")
             ELSE IF ~w.irBusyFlag
             THEN Drv(w, c1)
             ELSE LET c2 == IF ~w.storeManage.save_ir_img THEN c1
                            ELSE LET h == get_heatmap(c1, rh)
                                 IN  IF h.ret # 0
                                     THEN Log(h,
                                        "InfoBar.error: IR snapshot failed")
                                     ELSE h
                      c3 == IF ~w.storeManage.save_ir_temp THEN c2
                            ELSE LET t == get_image_temps(c2, rt)
                                 IN  IF t.ret # 0
                                     THEN Log(t,
                                        "InfoBar.error: IR snapshot failed")
                                     ELSE IF wf
                                     THEN Raise(Log(t,
                                        "OSError: write temperature file"))
                                     ELSE Log(t, "write: _temp.json")
                  IN  IF c3.raised
                      THEN Drv(w, c3)
                      ELSE InfoBar(Drv(w, c3), "InfoBar.success: snapshot")

(***************************************************************************)
(* Spec: the operator's clicks                                             *)
(***************************************************************************)
\* An exception that leaves a slot either ends the process (PyQt5's
\* default since 5.5) or is printed and the event loop goes on.
Commit(name, w) ==
    /\ Call(name, w.c)
    /\ rgbOpenFlag' = w.rgbOpenFlag
    /\ rgbBusyFlag' = w.rgbBusyFlag
    /\ irOpenFlag' = w.irOpenFlag
    /\ irBusyFlag' = w.irBusyFlag
    /\ hikOpenButton' = w.hikOpenButton
    /\ guideLoadButton' = w.guideLoadButton
    /\ stateStartButton' = w.stateStartButton
    /\ hikEnumComboBox' = w.hikEnumComboBox
    /\ hikOpenButtonEnabled' = w.hikOpenButtonEnabled
    /\ hikParamEnabled' = w.hikParamEnabled
    /\ storeManage' = w.storeManage
    /\ running' \in (IF w.c.raised THEN BOOLEAN ELSE {TRUE})

\* the port line edit holds "65535" or "65536"
Texts == [server : {1, 2}, port : {PyStr(65535), PyStr(65536)},
          username : {1, 2}, password : {1, 2}]

LegalTexts == {t \in Texts : /\ 2 \notin {t.server, t.username, t.password}
                             /\ t.port = PyStr(65535)}

Click_hikEnumButton ==
    /\ running
    /\ \E r \in Codes, n \in {0, 1} :
          Commit("hikEnumButtonClicked", hikEnumButtonClicked(World, r, n))

Click_hikOpenButton ==
    /\ running
    /\ hikOpenButtonEnabled
    /\ IF ~hikOpenButton
       THEN \E r1, r2 \in Codes :
              Commit("hikOpenButtonClicked",
                     hikOpenButtonClicked(World, TRUE, r1, r2,
                                          <<FALSE, FALSE>>, 0, <<0, 0, 0>>))
       ELSE \E o \in OpenCases :
              \E p \in IF o.rc = 0 /\ o.ro = 0 THEN GetParamCases
                                               ELSE {<<0, 0, 0>>} :
                 Commit("hikOpenButtonClicked",
                        hikOpenButtonClicked(World, FALSE, o.rc, o.ro,
                                             o.g, o.rt, p))

Click_guideLoadButton ==
    /\ running
    /\ IF ~guideLoadButton
       THEN \E ro \in Codes :
              Commit("guideLoadButtonClicked",
                     guideLoadButtonClicked(World, TRUE,
                        [server |-> 1, port |-> 1, username |-> 1,
                         password |-> 1], 0, ro, 0))
       ELSE \E t \in Texts :
              \E rl \in IF t \in LegalTexts THEN Codes ELSE {0} :
                 \E ro \in IF rl # 0 THEN Codes ELSE {0} :
                    \E rp \in IF t \in LegalTexts /\ rl = 0 THEN Codes
                                                            ELSE {0} :
                       Commit("guideLoadButtonClicked",
                              guideLoadButtonClicked(World, FALSE, t,
                                                     rl, ro, rp))

Click_stateStartButton ==
    /\ running
    /\ \E r1, r2 \in Codes :
          Commit("startButtonClicked",
                 startButtonClicked(World, ~stateStartButton, r1, r2))

\* a backend result that is not asked for has no outcome
Click_stateGrabButton ==
    /\ running
    /\ \E rh \in IF irBusyFlag THEN Codes ELSE {0} :
          \E rt \in IF irBusyFlag THEN Codes ELSE {0} :
             \E wf \in IF irBusyFlag /\ rt = 0 THEN BOOLEAN ELSE {FALSE} :
                Commit("stateGrabButtonClicked",
                       stateGrabButtonClicked(World, rh, rt, wf))

\* QSlider.value() is an int.  The ranges of the sliders are set by the
\* generated Ui class: the ends of the setters' ranges stand for them.
GainSliderValues == {PyInt(0), PyInt(17)}
ExposeSliderValues == {PyInt(15), PyInt(20000)}
FrameRateSliderValues == {PyInt(1), PyInt(80)}

\* the setter's result is dropped and hk_set_param may raise
Release_hikGainSlider ==
    /\ running
    /\ hikParamEnabled
    /\ \E value \in GainSliderValues, r \in SetParamCases :
          Commit("hikGainSliderReleased",
                 hikGainSliderReleased(World, value, r))

Release_hikExposeSlider ==
    /\ running
    /\ hikParamEnabled
    /\ \E value \in ExposeSliderValues, r \in SetParamCases :
          Commit("hikExposeSliderReleased",
                 hikExposeSliderReleased(World, value, r))

Release_hikFrameRateSlider ==
    /\ running
    /\ hikParamEnabled
    /\ \E value \in FrameRateSliderValues, r \in SetParamCases :
          Commit("hikFrameRateSliderReleased",
                 hikFrameRateSliderReleased(World, value, r))

\* the visible-light page alone
NextHik ==
    \/ Click_hikEnumButton
    \/ Click_hikOpenButton
    \/ Release_hikGainSlider
    \/ Release_hikExposeSlider
    \/ Release_hikFrameRateSlider

SpecHik == Init /\ [][NextHik]_vars

Next ==
    \/ Click_hikEnumButton
    \/ Click_hikOpenButton
    \/ Click_guideLoadButton
    \/ Click_stateStartButton
    \/ Click_stateGrabButton

Spec == Init /\ [][Next]_vars


(***************************************************************************)
(* The render page (demo.py) and its worker threads (functionWorker.py).   *)
(* A handler is an operator on the page R: the drop area, the renderThread *)
(* dict, the render context, every thread constructed so far and the       *)
(* signals queued to the UI thread (the worker's signals are delivered by  *)
(* queued connections, in the order they were emitted).                    *)
(***************************************************************************)
Render ==
    [dragDropAreaEnabled |-> dragDropAreaEnabled,
     renderThread |-> renderThread, render_context |-> render_context,
     threads |-> threads, events |-> events, log |-> <<>>]

\* FunctionLoopWorker(render_temp2img, path): files is the number of matrix
\* files under path, count the number render_temp2img has processed.
\* results, errors: how often the terminal signals were emitted;
\* delivered: the UI thread has handled the terminal signal;
\* shown: the signals of the thread the UI thread has handled, in order.
FunctionLoopWorker(slot, files) ==
    [kind |-> "FunctionLoopWorker", slot |-> slot, files |-> files,
     count |-> 0, pc |-> "created", results |-> 0, errors |-> 0,
     delivered |-> FALSE, shown |-> <<>>]

\* FunctionWorker(function): nothing connects to its signals
FunctionWorker ==
    [kind |-> "FunctionWorker", slot |-> None, files |-> 0,
     count |-> 0, pc |-> "created", results |-> 0, errors |-> 0,
     delivered |-> FALSE, shown |-> <<>>]

\* QThread.start(): run() begins with the call of the function
start(th) == [th EXCEPT !.pc = "function"]

Emit(R, t, sig) ==
    [R EXCEPT !.events = Append(@, [t |-> t, sig |-> sig,
                                    count |-> R.threads[t].count])]

\* what the thread can do next: inside the function it processes the next
\* file and emits step, returns when every file is done, or raises; after
\* the function it emits its terminal signal
RunSteps(th) ==
    IF th.pc = "function"
    THEN {"raise"} \cup (IF th.count < th.files THEN {"step"} ELSE {"return"})
    ELSE IF th.pc \in {"returned", "raised"} THEN {"emit"}
    ELSE {}

\* FunctionLoopWorker.run whose error signal is emitted on every exit
FunctionLoopWorker_run_always_errors(R, t, step) ==
    LET th == R.threads[t]
    IN  CASE step = "step" ->
               Emit([R EXCEPT !.threads[t].count = @ + 1], t, "step")
          [] step = "return" -> [R EXCEPT !.threads[t].pc = "returned"]
          [] step = "raise" -> [R EXCEPT !.threads[t].pc = "raised"]
          [] step = "emit" /\ th.pc = "returned" ->
               Emit(Emit([R EXCEPT !.threads[t].results = @ + 1,
                                   !.threads[t].errors = @ + 1,
                                   !.threads[t].pc = "finished"],
                         t, "result"), t, "error")
          [] OTHER ->
               Emit([R EXCEPT !.threads[t].errors = @ + 1,
                              !.threads[t].pc = "finished"], t, "error")

\* try: result = function(step, ...); result.emit(result)
\* except: error.emit()
FunctionLoopWorker_run(R, t, step) ==
    LET th == R.threads[t]
    IN  CASE step = "step" ->
               Emit([R EXCEPT !.threads[t].count = @ + 1], t, "step")
          [] step = "return" -> [R EXCEPT !.threads[t].pc = "returned"]
          [] step = "raise" -> [R EXCEPT !.threads[t].pc = "raised"]
          [] step = "emit" /\ th.pc = "returned" ->
               Emit([R EXCEPT !.threads[t].results = @ + 1,
                              !.threads[t].pc = "finished"], t, "result")
          [] OTHER ->
               Emit([R EXCEPT !.threads[t].errors = @ + 1,
                              !.threads[t].pc = "finished"], t, "error")

\* try: result = function(...); result.emit(result)
\* except: error.emit()
FunctionWorker_run(R, t, step) ==
    LET th == R.threads[t]
    IN  CASE step = "return" -> [R EXCEPT !.threads[t].pc = "returned"]
          [] step = "raise" -> [R EXCEPT !.threads[t].pc = "raised"]
          [] step = "emit" /\ th.pc = "returned" ->
               [R EXCEPT !.threads[t].results = @ + 1,
                         !.threads[t].pc = "finished"]
          [] OTHER ->
               [R EXCEPT !.threads[t].errors = @ + 1,
                         !.threads[t].pc = "finished"]

Notice(R, notice) == [R EXCEPT !.log = Append(@, notice)]

\* renderFileDropped that leaves the drop area enabled
renderFileDropped_keeps_area_enabled(R, filePath) ==
    IF filePath = ""
    THEN R
    ELSE [R EXCEPT
           !.render_context = [type |-> "file", files |-> 1, status |-> 0],
           !.threads = Append(@, start(FunctionLoopWorker(0, 1))),
           !.renderThread = (0 :> (Len(R.threads) + 1)) @@ @]

renderFileDropped(R, filePath) ==
    IF filePath = ""
    THEN R
    ELSE [R EXCEPT
           !.dragDropAreaEnabled = FALSE,
           !.render_context = [type |-> "file", files |-> 1, status |-> 0],
           !.threads = Append(@, start(FunctionLoopWorker(0, 1))),
           !.renderThread = (0 :> (Len(R.threads) + 1)) @@ @]

\* files: the number of .json files listJsonInDir finds in dirPath
renderDirDropped(R, dirPath, files) ==
    IF dirPath = ""
    THEN R
    ELSE [R EXCEPT
           !.dragDropAreaEnabled = FALSE,
           !.render_context = [type |-> "folder", files |-> files,
                               status |-> 0],
           !.threads = Append(@, start(FunctionLoopWorker(1, files))),
           !.renderThread = (1 :> (Len(R.threads) + 1)) @@ @]

\* status: the number of files marked done
onShowRenderProgressInfo(R, progress_info) ==
    IF R.render_context.type = "file"
    THEN [R EXCEPT !.render_context.status = 1]
    ELSE IF R.render_context.type = "folder"
              /\ R.render_context.status < R.render_context.files
    THEN [R EXCEPT !.render_context.status = @ + 1]
    ELSE R

renderOneThreadFinished(R, result) ==
    LET R1 == [R EXCEPT !.dragDropAreaEnabled = TRUE]
        R2 == IF result.count > 0
              THEN Notice(IF R1.render_context.type = "file"
                          THEN [R1 EXCEPT !.render_context.status = 1]
                          ELSE R1,
                          "InfoBar.success: render finished")
              ELSE Notice(R1, "InfoBar.error: render failed")
    IN  [R2 EXCEPT !.renderThread = (0 :> None) @@ @]

renderAllThreadFinished(R, result) ==
    LET R1 == [R EXCEPT !.dragDropAreaEnabled = TRUE]
        R2 == IF result.count > 0
              THEN Notice(IF R1.render_context.type = "folder"
                          THEN [R1 EXCEPT !.render_context.status =
                                              R1.render_context.files]
                          ELSE R1,
                          "InfoBar.success: render finished")
              ELSE Notice(R1, "InfoBar.error: render failed")
    IN  [R2 EXCEPT !.renderThread = (1 :> None) @@ @]

\* processRenderError that leaves the drop area as it is
processRenderError_keeps_area_disabled(R) == R

processRenderError(R) == [R EXCEPT !.dragDropAreaEnabled = TRUE]

\* the slot a queued signal is connected to
Slot(R, e) ==
    IF e.sig = "step" THEN "onShowRenderProgressInfo"
    ELSE IF e.sig = "error" THEN "processRenderError"
    ELSE IF R.threads[e.t].slot = 0 THEN "renderOneThreadFinished"
    ELSE "renderAllThreadFinished"

\* the UI thread takes the oldest queued signal and runs its slot
\* an event loop that takes the newest queued signal first
Deliver_newest_first(R) ==
    LET e == R.events[Len(R.events)]
        R1 == [R EXCEPT !.events = SubSeq(@, 1, Len(@) - 1),
                        !.threads[e.t].delivered = (@ \/ e.sig # "step"),
                        !.threads[e.t].shown =
                            Append(@, [sig |-> e.sig, count |-> e.count])]
    IN  CASE Slot(R, e) = "onShowRenderProgressInfo" ->
               onShowRenderProgressInfo(R1, e)
          [] Slot(R, e) = "renderOneThreadFinished" ->
               renderOneThreadFinished(R1, e)
          [] Slot(R, e) = "renderAllThreadFinished" ->
               renderAllThreadFinished(R1, e)
          [] OTHER -> processRenderError(R1)

Deliver(R) ==
    LET e == Head(R.events)
        R1 == [R EXCEPT !.events = Tail(@),
                        !.threads[e.t].delivered = (@ \/ e.sig # "step"),
                        !.threads[e.t].shown =
                            Append(@, [sig |-> e.sig, count |-> e.count])]
    IN  CASE Slot(R, e) = "onShowRenderProgressInfo" ->
               onShowRenderProgressInfo(R1, e)
          [] Slot(R, e) = "renderOneThreadFinished" ->
               renderOneThreadFinished(R1, e)
          [] Slot(R, e) = "renderAllThreadFinished" ->
               renderAllThreadFinished(R1, e)
          [] OTHER -> processRenderError(R1)

(***************************************************************************)
(* SpecRender: drops on the render page, the worker threads, the UI thread *)
(***************************************************************************)
RenderCommit(name, R) ==
    /\ dragDropAreaEnabled' = R.dragDropAreaEnabled
    /\ renderThread' = R.renderThread
    /\ render_context' = R.render_context
    /\ threads' = R.threads
    /\ events' = R.events
    /\ log' = R.log
    /\ calls' = <<>>
    /\ op' = [name |-> name, ret |-> None, raised |-> FALSE,
              val |-> "None"]
    /\ pre' = Pre
    /\ UNCHANGED <<ir, rgb, winvars>>
    /\ UNCHANGED fnvars
    /\ UNCHANGED args

\* a disabled widget receives neither drops nor clicks of its browse buttons
Drop_file ==
    /\ running /\ dragDropAreaEnabled
    /\ Len(threads) < MaxThreads
    /\ RenderCommit("renderFileDropped",
                    renderFileDropped(Render, "matrix.json"))

Drop_dir ==
    /\ running /\ dragDropAreaEnabled
    /\ Len(threads) < MaxThreads
    /\ \E files \in 0..MaxFiles :
          RenderCommit("renderDirDropped",
                       renderDirDropped(Render, "records", files))

\* some caller constructs and starts a FunctionWorker
Start_FunctionWorker ==
    /\ running
    /\ Len(threads) < MaxThreads
    /\ RenderCommit("FunctionWorker.start",
                    [Render EXCEPT !.threads =
                                      Append(@, start(FunctionWorker))])

Run_FunctionLoopWorker ==
    \E t \in DOMAIN threads :
        /\ threads[t].kind = "FunctionLoopWorker"
        /\ \E step \in RunSteps(threads[t]) :
              RenderCommit("FunctionLoopWorker.run",
                           FunctionLoopWorker_run(Render, t, step))

Run_FunctionWorker ==
    \E t \in DOMAIN threads :
        /\ threads[t].kind = "FunctionWorker"
        /\ \E step \in RunSteps(threads[t]) :
              RenderCommit("FunctionWorker.run",
                           FunctionWorker_run(Render, t, step))

EventLoop ==
    /\ running
    /\ events # <<>>
    /\ RenderCommit(Slot(Render, Head(events)), Deliver(Render))

NextRender ==
    \/ Drop_file
    \/ Drop_dir
    \/ Start_FunctionWorker
    \/ Run_FunctionLoopWorker
    \/ Run_FunctionWorker
    \/ EventLoop

SpecRender == InitDrv /\ [][NextRender]_vars

\* a started QThread keeps being scheduled until run() returns, and the Qt
\* event loop of the window keeps delivering queued signals
SpecRenderFair ==
    /\ SpecRender
    /\ WF_vars(Run_FunctionLoopWorker)
    /\ WF_vars(Run_FunctionWorker)
    /\ WF_vars(EventLoop)


(***************************************************************************)
(* render.py: render_temp2img on a path.  A path is a file, a directory or *)
(* neither; docs are its .json files in the order glob lists them, each    *)
(* one the number of samples of its matrix, or Malformed when json.load    *)
(* raises on it.                                                           *)
(***************************************************************************)
Malformed == -1

\* A binary float is [m, s]: m the set of the positions of the 1 bits of
\* its 53-bit significand (position 0 the least significant), the value
\* being significand * 2^(-s).
RECURSIVE Add(_, _)
Add(A, B) ==
    IF B = {} THEN A
    ELSE Add((A \cup B) \ (A \cap B), {i + 1 : i \in A \cap B})

Top(A) == CHOOSE i \in A : \A j \in A : j <= i

\* an exact significand rounded to 53 bits, ties to even
Round53(P, s) ==
    LET d == Top(P) - 52
        M == {i - d : i \in {j \in P : j >= d}}
        up == /\ d > 0
              /\ (d - 1) \in P
              /\ ((\E i \in P : i < d - 1) \/ 0 \in M)
    IN  [m |-> IF up THEN Add(M, {0}) ELSE M, s |-> s - d]

\* count / n for 0 < count <= n (int.__truediv__ is correctly rounded):
\* digit(j) is the j-th binary digit of the quotient, rem[j] what is left
truediv(count, n) ==
    LET rem[j \in 0..(n + 53)] ==
            IF j = 0 THEN count % n ELSE (2 * rem[j - 1]) % n
        digit(j) == (2 * rem[j - 1]) \div n
        j0 == CHOOSE j \in 1..n :
                  digit(j) = 1 /\ \A i \in 1..(j - 1) : digit(i) = 0
        M == {j0 + 52 - j : j \in {i \in j0..(j0 + 52) : digit(i) = 1}}
        r == rem[j0 + 52]
        up == 2 * r > n \/ (2 * r = n /\ 0 \in M)
    IN  IF count = n THEN [m |-> {52}, s |-> 52]
        ELSE Round53(IF up THEN Add(M, {0}) ELSE M, j0 + 52)

\* x * 100 (float.__mul__): 100 = 2^6 + 2^5 + 2^2
mul100(x) ==
    LET Sh(k) == {i + k : i \in x.m}
    IN  Round53(Add(Add(Sh(6), Sh(5)), Sh(2)), x.s)

RECURSIVE Pow2(_)
Pow2(k) == IF k = 0 THEN 1 ELSE 2 * Pow2(k - 1)

RECURSIVE SumPow2(_)
SumPow2(S) ==
    IF S = {} THEN 0
    ELSE LET i == CHOOSE i \in S : TRUE
         IN  Pow2(i) + SumPow2(S \ {i})

\* int(x) for a float 0 <= x < 2^31: the fraction is dropped
int(x) == SumPow2({i - x.s : i \in {j \in x.m : j >= x.s}})

\* progress_value = int(count / len(ir_temp_dict) * 100)
progress_value(count, n) == int(mul100(truediv(count, n)))

\* load_ir_temp that raises when it finds no file
load_ir_temp_raises_when_empty(p) ==
    IF p.docs = <<>> THEN "raise"
    ELSE IF \E i \in DOMAIN p.docs : p.docs[i] = Malformed THEN "raise"
    ELSE "dict"

\* "None" without .json file, "raise" when json.load raises, else the dict
load_ir_temp(p) ==
    IF p.docs = <<>> THEN "None"
    ELSE IF \E i \in DOMAIN p.docs : p.docs[i] = Malformed THEN "raise"
    ELSE "dict"

\* data: len(data).  A mismatch is logged and nothing else; with fewer
\* samples than height * width a row of array is short and array[y][x]
\* raises IndexError.
save_ir_img(data) ==
    [raised |-> data < height * width,
     log |-> IF data # height * width
             THEN <<"logger.error: Data size mismatch">>
             ELSE <<>>]

\* one step of render_temp2img(step_signal, path): the call of load_ir_temp,
\* one turn of the loop, or the return
render_temp2img(p, f) ==
    CASE f.pc = "called" ->
           IF load_ir_temp(p) = "raise"
           THEN [f EXCEPT !.pc = "raised"]
           ELSE IF load_ir_temp(p) = "None"
           THEN [f EXCEPT !.pc = "returned",
                          !.result = [count |-> 0, last_image |-> FALSE]]
           ELSE [f EXCEPT !.pc = "loop"]
      [] f.pc = "loop" /\ f.count < Len(p.docs) ->
           LET saved == save_ir_img(p.docs[f.count + 1])
           IN  IF saved.raised
               THEN [f EXCEPT !.pc = "raised", !.log = @ \o saved.log]
               ELSE [f EXCEPT
                      !.count = @ + 1,
                      !.log = @ \o saved.log,
                      !.steps = Append(@,
                          [count |-> f.count + 1,
                           progress_value |->
                               progress_value(f.count + 1, Len(p.docs))])]
      [] f.pc = "loop" /\ f.count = Len(p.docs) ->
           [f EXCEPT !.pc = "returned",
                     !.result = [count |-> f.count, last_image |-> TRUE]]
      [] OTHER -> f

\* the sequences over S of length at most n
RECURSIVE SeqsUpTo(_, _)
SeqsUpTo(S, n) ==
    IF n = 0 THEN {<<>>}
    ELSE LET T == SeqsUpTo(S, n - 1)
         IN  T \cup {Append(t, x) : t \in {u \in T : Len(u) = n - 1}, x \in S}

\* x * 255 (float.__mul__): 255 = 2^7 + ... + 2^0
mul255(x) ==
    LET Sh(k) == {i + k : i \in x.m}
        sum[k \in 0..7] == IF k = 0 THEN Sh(0) ELSE Add(sum[k - 1], Sh(k))
    IN  Round53(sum[7], x.s)

\* the loop of find_min_max over data[1:], from its i-th element on
RECURSIVE find_min_max_from(_, _, _, _)
find_min_max_from(data, i, min_val, max_val) ==
    IF i > Len(data) THEN <<min_val, max_val>>
    ELSE IF data[i] < min_val
         THEN find_min_max_from(data, i + 1, data[i], max_val)
         ELSE IF data[i] > max_val
              THEN find_min_max_from(data, i + 1, min_val, data[i])
              ELSE find_min_max_from(data, i + 1, min_val, max_val)

find_min_max(data) ==
    IF data = <<>> THEN <<None, None>>
    ELSE find_min_max_from(data, 2, data[1], data[1])

\* normalize whose divisor has no 1e-16 term: 0 / 0 raises
normalize_without_epsilon(data) ==
    LET mm == find_min_max(data)
        d == mm[2] - mm[1]
    IN  IF data # <<>> /\ d = 0
        THEN [pc |-> "raised", out |-> <<>>]
        ELSE [pc |-> "returned",
              out |-> [i \in DOMAIN data |->
                         IF data[i] = mm[1] THEN 0
                         ELSE int(mul255(truediv(data[i] - mm[1], d)))]]

\* [int((x - min)/(max - min + 1e-16) * 255) for x in data], samples being
\* integers: max - min + 1e-16 is 1e-16 when max = min and rounds to
\* max - min otherwise (1e-16 is under half an ulp of 1.0); 0 / y is 0.0
normalize(data) ==
    LET mm == find_min_max(data)
        d == mm[2] - mm[1]
    IN  [pc |-> "returned",
         out |-> [i \in DOMAIN data |->
                    IF data[i] = mm[1] THEN 0
                    ELSE int(mul255(truediv(data[i] - mm[1], d)))]]

(***************************************************************************)
(* SpecNormalize: normalize called on one list of samples                  *)
(***************************************************************************)
Samples == SeqsUpTo(0..MaxTemp, MaxSamples)

InitNormalize ==
    /\ InitWindow
    /\ ~hikOpenButton /\ ~guideLoadButton /\ ~stateStartButton
    /\ hikOpenButtonEnabled /\ hikParamEnabled
    /\ path = NoPath
    /\ temp2img = NotCalled
    /\ data_normalized = NotNormalized
    /\ grab = NoGrab
    /\ args \in Samples

Call_normalize ==
    /\ data_normalized.pc = "called"
    /\ data_normalized' = normalize(args)
    /\ UNCHANGED <<path, temp2img, grab, args, ir, rgb, winvars, rendervars,
                   calls, log, op, pre>>

NextNormalize == Call_normalize

SpecNormalize == InitNormalize /\ [][NextNormalize]_vars

(***************************************************************************)
(* SpecTemp2Img: render_temp2img called on one path                        *)
(***************************************************************************)
Docs == {Malformed, height * width - 1, height * width, height * width + 1}

Paths ==
    {NoPath}
    \cup {[kind |-> "file", docs |-> <<d>>] : d \in Docs}
    \cup {[kind |-> "dir", docs |-> ds] : ds \in SeqsUpTo(Docs, MaxFiles)}
    \cup {[kind |-> "dir", docs |-> [i \in 1..n |-> height * width]] :
            n \in 1..MaxDocs}

InitTemp2Img ==
    /\ InitWindow
    /\ ~hikOpenButton /\ ~guideLoadButton /\ ~stateStartButton
    /\ hikOpenButtonEnabled
    /\ path \in Paths
    /\ temp2img = NotCalled
    /\ data_normalized = NotNormalized
    /\ grab = NoGrab
    /\ args = PyNone

Step_render_temp2img ==
    /\ temp2img.pc \in {"called", "loop"}
    /\ temp2img' = render_temp2img(path, temp2img)
    /\ UNCHANGED <<path, data_normalized, grab, args, ir, rgb, winvars,
                   rendervars, calls, log, op, pre>>

NextTemp2Img == Step_render_temp2img

SpecTemp2Img == InitTemp2Img /\ [][NextTemp2Img]_vars


(***************************************************************************)
(* SpecParam: the setters of the two parameter objects called directly     *)
(***************************************************************************)
ExposureInputs ==
    {PyInt(14), PyInt(15), PyInt(20000), PyInt(20001), PyFloat(150),
     PyBool(TRUE), PyStr(15), PyNone}

GainInputs == {PyInt(-1), PyInt(0), PyInt(17), PyInt(18), PyFloat(0)}

FrameRateInputs ==
    {PyFloat(0), PyFloat(1), PyFloat(800), PyFloat(801), PyInt(30)}

Call_set_exposure_time == \E v \in ExposureInputs :
    CallWith("set_exposure_time", set_exposure_time(Ctx, v), v)
    /\ UNCHANGED winvars

Call_set_gain == \E v \in GainInputs :
    CallWith("set_gain", set_gain(Ctx, v), v) /\ UNCHANGED winvars

Call_set_frame_rate == \E v \in FrameRateInputs :
    CallWith("set_frame_rate", set_frame_rate(Ctx, v), v)
    /\ UNCHANGED winvars

PortInputs ==
    {PyInt(0), PyInt(1), PyInt(65535), PyInt(65536), PyInt(-1),
     PyStr(0), PyStr(1), PyStr(65535), PyStr(65536),
     PyFloat(9), PyFloat(19), PyBool(TRUE), PyText, PyNone}

Call_set_port == \E v \in PortInputs :
    CallWith("set_port", set_port(Ctx, v), v) /\ UNCHANGED winvars

Call_reset_param ==
    CallWith("reset_param", reset_param(Ctx), PyNone) /\ UNCHANGED winvars

NextParam ==
    \/ Call_set_exposure_time
    \/ Call_set_gain
    \/ Call_set_frame_rate
    \/ Call_set_port
    \/ Call_reset_param

SpecParam == InitDrv /\ [][NextParam]_vars


(***************************************************************************)
(* SpecRecord: start_record and stop_record of one IRCamera                *)
(***************************************************************************)
CallbackIds == 1..MaxCallbacks

Call_start_record ==
    \E t \in VideoTypes, cb \in CallbackIds, r \in Codes :
        Call("start_record", start_record(Ctx, t, cb, r))
        /\ UNCHANGED winvars

Call_stop_record == \E t \in VideoTypes :
    Call("stop_record", stop_record(Ctx, t)) /\ UNCHANGED winvars

Record_release == Call("release", release(Ctx)) /\ UNCHANGED winvars

NextRecord ==
    \/ Call_start_record
    \/ Call_stop_record
    \/ Record_release

SpecRecord == InitDrv /\ [][NextRecord]_vars

(***************************************************************************)
(* SpecGrab: one CameraOperation, its control thread and the Work_thread   *)
(* threads it starts, interleaved statement by statement                   *)
(***************************************************************************)
Terminated == {"killed", "raised", "done"}

\* PyThreadState_SetAsyncExc on thread t: 0 threads changed when t is None
\* or has ended, else SystemExit is pending for t
Async_raise(g, t) ==
    IF t = 0 \/ g.threads[t].pc \in Terminated
    THEN g
    ELSE [g EXCEPT !.threads[t].exc = TRUE]

\* threading.Thread(target=Work_thread).start()
Thread_start(g) ==
    [g EXCEPT !.threads = Append(@, [pc |-> "GetImageBuffer",
                                     exc |-> FALSE]),
              !.h_thread_handle = Len(g.threads) + 1]

\* one statement of Work_thread in thread t.  ret: result of
\* MV_CC_GetImageBuffer.  A pending SystemExit is raised in place of the
\* next statement, whatever the thread holds.  buf_save_image is an
\* attribute that `del` removes: reading it afterwards raises
\* AttributeError.  The thread waits in acquire while buf_lock is taken.
Work_thread(g, t, ret, b_exit) ==
    LET pc == g.threads[t].pc
        At(p) == [g EXCEPT !.threads[t].pc = p]
    IN  IF pc \in Terminated THEN g
        ELSE IF g.threads[t].exc
        THEN [g EXCEPT !.threads[t].pc = "killed", !.threads[t].exc = FALSE]
        ELSE CASE pc = "GetImageBuffer" ->
                    IF ret # 0 THEN g
                    ELSE IF g.buf_save_image = "deleted" THEN At("raised")
                    ELSE [At("acquire") EXCEPT
                             !.buf_save_image = "allocated"]
               [] pc = "acquire" ->
                    IF g.buf_lock = Unlocked
                    THEN [At("memcpy") EXCEPT !.buf_lock = t]
                    ELSE g
               [] pc = "memcpy" -> At("release")
               [] pc = "release" -> [At("display") EXCEPT
                                        !.buf_lock = Unlocked]
               [] pc = "display" ->
                    IF g.buf_save_image = "deleted" THEN At("raised")
                    ELSE IF b_exit
                    THEN [At("done") EXCEPT !.buf_save_image = "deleted"]
                    ELSE At("GetImageBuffer")

\* Save_jpg that does not take buf_lock
Save_jpg_without_lock(g) ==
    CASE g.main \in {"idle", "raised"} ->
            IF g.buf_save_image = "deleted" THEN [g EXCEPT !.main = "raised"]
            ELSE IF g.buf_save_image = "None" THEN [g EXCEPT !.main = "idle"]
            ELSE [g EXCEPT !.main = "acquire"]
      [] g.main = "acquire" -> [g EXCEPT !.main = "save"]
      [] g.main = "save" -> [g EXCEPT !.main = "idle"]

\* one statement of Save_jpg on the control thread: the test of
\* buf_save_image, buf_lock.acquire(), then the read of the buffer by
\* MV_CC_SaveImageToFileEx and buf_lock.release()
Save_jpg(g) ==
    CASE g.main \in {"idle", "raised"} ->
            IF g.buf_save_image = "deleted" THEN [g EXCEPT !.main = "raised"]
            ELSE IF g.buf_save_image = "None" THEN [g EXCEPT !.main = "idle"]
            ELSE [g EXCEPT !.main = "acquire"]
      [] g.main = "acquire" ->
            IF g.buf_lock = Unlocked
            THEN [g EXCEPT !.main = "save", !.buf_lock = MainThread]
            ELSE g
      [] g.main = "save" -> [g EXCEPT !.main = "idle", !.buf_lock = Unlocked]

\* a method of the CameraOperation run by the control thread
GrabCall(name, c, g) ==
    /\ grab.main \in {"idle", "raised"}
    /\ ir' = c.ir
    /\ rgb' = c.rgb
    /\ calls' = c.calls
    /\ log' = c.log
    /\ op' = [name |-> name, ret |-> c.ret, raised |-> c.raised,
              val |-> c.val]
    /\ pre' = Pre
    /\ grab' = g
    /\ UNCHANGED <<rendervars, path, temp2img, data_normalized, args>>

\* Stop_thread(self.h_thread_handle) where the method called it
Stopped(c, g) ==
    IF \E i \in DOMAIN c.calls : c.calls[i].fn = "PyThreadState_SetAsyncExc"
    THEN Async_raise(g, g.h_thread_handle)
    ELSE g

Grab_Open_device == \E rc, ro \in Codes :
    GrabCall("Open_device", Open_device(Ctx, rc, ro, FALSE, FALSE), grab)
    /\ UNCHANGED winvars

Grab_Start_grabbing == \E r \in Codes :
    LET c == Start_grabbing(Ctx, r)
    IN  /\ Len(grab.threads) < MaxWorkThreads
        /\ GrabCall("Start_grabbing", c,
                    IF c.ret = MV_OK THEN Thread_start(grab) ELSE grab)
        /\ UNCHANGED winvars

Grab_Stop_grabbing == \E r \in Codes :
    LET c == Stop_grabbing(Ctx, r)
    IN  GrabCall("Stop_grabbing", c, Stopped(c, grab)) /\ UNCHANGED winvars

Grab_Close_device == \E r \in Codes :
    LET c == Close_device(Ctx, r)
    IN  GrabCall("Close_device", c, Stopped(c, grab)) /\ UNCHANGED winvars

Step_Save_jpg ==
    /\ grab' = Save_jpg(grab)
    /\ grab' # grab
    /\ UNCHANGED <<ir, rgb, winvars, rendervars, path, temp2img,
                   data_normalized, args, calls, log, op, pre>>

Step_Work_thread == \E t \in DOMAIN grab.threads, ret \in Codes :
    /\ grab' = Work_thread(grab, t, ret, rgb.obj.b_exit)
    /\ grab' # grab
    /\ UNCHANGED <<ir, rgb, winvars, rendervars, path, temp2img,
                   data_normalized, args, calls, log, op, pre>>

NextGrab ==
    \/ Grab_Open_device
    \/ Grab_Start_grabbing
    \/ Grab_Stop_grabbing
    \/ Grab_Close_device
    \/ Step_Save_jpg
    \/ Step_Work_thread

SpecGrab == InitDrv /\ [][NextGrab]_vars

(***************************************************************************)
(* Properties                                                              *)
(***************************************************************************)
Issued(fn) == \E i \in DOMAIN calls : calls[i].fn = fn

Logged(line) == \E i \in DOMAIN log : log[i] = line

\* some call of After follows some call of Before in the last operation
IssuedAfter(Before, After) ==
    \E i, j \in DOMAIN calls :
        i < j /\ calls[i].fn \in Before /\ calls[j].fn \in After

\* every call of Later is preceded by a call of Earlier
Precedes(Earlier, Later) ==
    \A j \in DOMAIN calls :
        calls[j].fn \in Later =>
            \E i \in DOMAIN calls : i < j /\ calls[i].fn \in Earlier

\* some line of After is logged after some line of Before
LoggedAfter(Before, After) ==
    \E i, j \in DOMAIN log :
        i < j /\ log[i] \in Before /\ log[j] \in After

\* the click that ran startButtonClicked asked to start (checked = False)
\* or to stop (checked = True)
StartRequested == op.name = "startButtonClicked" /\ pre.stateStartButton

StopRequested == op.name = "startButtonClicked" /\ ~pre.stateStartButton

\* SessionState of an infrared session, read off its fields
IRState(s) ==
    IF s.handle \in {None, 0} THEN "Uninitialized"
    ELSE IF s._video_opened THEN "Streaming"
    ELSE IF s._logged_in THEN "Connected"
    ELSE "Initialized"

\* SessionState of a visible-light session (pre-initialised on construction)
RGBState(s) ==
    IF s.video_opened THEN "Streaming"
    ELSE IF s.logged_in THEN "Connected"
    ELSE "Initialized"

\* C1: when the start branch of startButtonClicked runs with both cameras
\* open, the visible-light start succeeds and the infrared start fails, the
\* visible-light stream is stopped again before the handler returns, no
\* session is left Streaming and the failure is reported.
C1_FailedSecondStartRollsBackFirst ==
    (/\ op.name = "startButtonClicked"
     /\ pre.rgbOpenFlag /\ pre.irOpenFlag
     /\ Logged("info: Start grabbing succeeded")
     /\ Logged("error: Open IR video failed"))
    => /\ IssuedAfter({"MV_CC_StartGrabbing"}, {"MV_CC_StopGrabbing"})
       /\ ~rgbBusyFlag /\ ~irBusyFlag
       /\ ~rgb.video_opened /\ ~ir._video_opened
       /\ Logged("InfoBar.error: IR start sampling failed")

\* C2: a session that is Streaming holds a non-null handle and is Connected,
\* in every reachable state of either session.
C2_StreamingImpliesConnected ==
    /\ ir._video_opened => (ir.handle \notin {None, 0} /\ ir._logged_in)
    /\ rgb.video_opened => (rgb.hk_obj_cam_operation /\ rgb.logged_in)

\* C3: when close (hk_close_device, logout) is called on a Streaming
\* session, the native close/logout call is preceded by a native
\* stop-streaming call.
C3_StopBeforeClose ==
    /\ (op.name = "logout" /\ pre.ir._video_opened)
       => Precedes({"SGP_CloseIrVideo"}, {"SGP_Logout"})
    /\ (op.name = "hk_close_device" /\ pre.rgb.video_opened)
       => Precedes({"MV_CC_StopGrabbing"},
                   {"MV_CC_CloseDevice", "MV_CC_DestroyHandle"})

\* C4: open (login, hk_open_device) on a session that is not Initialized
\* issues no native login/open call and leaves the session as it was.
C4_OpenOnlyFromInitialized ==
    /\ (op.name = "login" /\ IRState(pre.ir) # "Initialized")
       => (~Issued("SGP_Login") /\ ir = pre.ir)
    /\ (op.name = "hk_open_device" /\ RGBState(pre.rgb) # "Initialized")
       => (~Issued("MV_CC_CreateHandle") /\ ~Issued("MV_CC_OpenDevice")
           /\ rgb = pre.rgb)

\* C5: no native operation is ever handed a null (None) or zero handle.
C5_NoNativeCallOnNullHandle ==
    \A i \in DOMAIN calls : calls[i].h \notin {None, 0}

\* C6: close (logout, hk_close_device) on a session that is Initialized
\* returns success and leaves the session as it was.
C6_CloseWhenInitializedSucceeds ==
    /\ (op.name = "logout" /\ IRState(pre.ir) = "Initialized")
       => (op.ret = SGP_OK /\ ir = pre.ir)
    /\ (op.name = "hk_close_device" /\ RGBState(pre.rgb) = "Initialized")
       => (op.ret = MV_OK /\ rgb = pre.rgb)

\* C7: after close (logout, hk_close_device) the session is neither
\* Connected nor Streaming, whatever the backend returned.
C7_CloseAlwaysLeavesInitialized ==
    /\ op.name = "logout" => (~ir._logged_in /\ ~ir._video_opened)
    /\ op.name = "hk_close_device"
       => (~rgb.logged_in /\ ~rgb.video_opened)

\* C8: startStreaming (hk_start_grabbing, open_ir_video) on a session that
\* is already Streaming issues no native call, signals the duplicate (the
\* "Already ..." warning with a success code) and leaves the session
\* Streaming, unchanged.
C8_SecondStartIsDuplicate ==
    /\ (op.name = "hk_start_grabbing" /\ pre.rgb.video_opened)
       => /\ calls = <<>>
          /\ log = <<"warning: Already started grabbing">>
          /\ op.ret = MV_OK /\ ~op.raised
          /\ rgb = pre.rgb /\ rgb.video_opened
    /\ (op.name = "open_ir_video" /\ pre.ir._video_opened
        /\ pre.ir.handle # None)
       => /\ calls = <<>>
          /\ log = <<"warning: Already open IR video">>
          /\ op.ret = SGP_OK /\ ~op.raised
          /\ ir = pre.ir /\ ir._video_opened

\* a second open_ir_video on a Streaming infrared session, while the
\* visible-light session is Streaming too
C8_Witness ==
    /\ op.name = "open_ir_video"
    /\ pre.ir._video_opened /\ pre.ir.handle # None
    /\ rgb.video_opened

\* C9: stopStreaming (hk_stop_grabbing, close_ir_video) on a session that
\* is not Streaming issues no native stop call, leaves the session as it
\* was and returns success.
C9_StopWhenNotStreamingIsNoOp ==
    /\ (op.name = "hk_stop_grabbing" /\ ~pre.rgb.video_opened)
       => (~op.raised /\ op.ret = MV_OK /\ ~Issued("MV_CC_StopGrabbing")
           /\ rgb = pre.rgb)
    /\ (op.name = "close_ir_video" /\ ~pre.ir._video_opened)
       => (~op.raised /\ op.ret = SGP_OK /\ ~Issued("SGP_CloseIrVideo")
           /\ ir = pre.ir)

\* C10: when the backend open/login call fails, a native close/logout call
\* follows the failed open, and the session stays Initialized with the
\* controller's open flag false.
C10_FailedOpenIsFollowedByClose ==
    /\ (op.name = "hikOpenButtonClicked" /\ Logged("error: Open device failed"))
       => /\ IssuedAfter({"MV_CC_CreateHandle", "MV_CC_OpenDevice"},
                         {"MV_CC_CloseDevice", "MV_CC_DestroyHandle"})
          /\ ~rgb.logged_in /\ ~rgbOpenFlag
    /\ (op.name = "guideLoadButtonClicked" /\ Logged("error: Login failed"))
       => /\ IssuedAfter({"SGP_Login"}, {"SGP_Logout"})
          /\ ~ir._logged_in /\ ~irOpenFlag

\* C11: when one camera is open and its backend start call fails,
\* startButtonClicked calls the session's stop (hk_stop_grabbing,
\* close_ir_video) after the failed start, the session stays Connected
\* (logged in, not Streaming, busy flag false), and the next click is again
\* a start request that reaches the backend start call.
C11_FailedStartLeavesConnected ==
    /\ (/\ StartRequested /\ ~(pre.rgbOpenFlag /\ pre.irOpenFlag)
        /\ Issued("MV_CC_StartGrabbing")
        /\ Logged("error: Start grabbing failed"))
       => /\ LoggedAfter({"error: Start grabbing failed"},
                         {"error: Stop grabbing failed",
                          "info: Stop grabbing succeeded"})
          /\ rgbOpenFlag /\ rgb.logged_in
          /\ ~rgb.video_opened /\ ~rgbBusyFlag /\ ~irBusyFlag
          /\ stateStartButton
          /\ rgb.obj.b_open_device /\ ~rgb.obj.b_start_grabbing
    /\ (/\ StartRequested /\ ~(pre.rgbOpenFlag /\ pre.irOpenFlag)
        /\ Logged("error: Open IR video failed"))
       => /\ LoggedAfter({"error: Open IR video failed"},
                         {"warning: Already close IR video",
                          "info: Close IR video successes"})
          /\ irOpenFlag /\ ir._logged_in /\ ir.handle # None
          /\ ~ir._video_opened /\ ~irBusyFlag /\ ~rgbBusyFlag
          /\ stateStartButton

\* the visible-light camera alone is open and MV_CC_StartGrabbing failed
C11_Witness ==
    /\ StartRequested /\ pre.rgbOpenFlag /\ ~pre.irOpenFlag
    /\ Logged("error: Start grabbing failed")
    /\ Issued("MV_CC_StartGrabbing")

\* C12: a start request while neither camera is open (rgbOpenFlag and
\* irOpenFlag false) reports that no device is ready, issues no native start
\* call and leaves both sessions not Streaming.
C12_StartWithoutDeviceIsRefused ==
    (StartRequested /\ ~pre.rgbOpenFlag /\ ~pre.irOpenFlag)
    => /\ Logged("InfoBar.warning: open at least one camera")
       /\ ~Issued("MV_CC_StartGrabbing") /\ ~Issued("SGP_OpenIrVideo")
       /\ ~rgb.video_opened /\ ~ir._video_opened
       /\ ~rgbBusyFlag /\ ~irBusyFlag

\* a start request after the visible-light camera was opened and closed again
C12_Witness ==
    /\ StartRequested /\ ~pre.rgbOpenFlag /\ ~pre.irOpenFlag
    /\ pre.rgb.hk_obj_cam_operation
    /\ Logged("InfoBar.warning: open at least one camera")

\* C13: the stop branch of startButtonClicked issues the native stop to
\* every session that is Streaming, a failed stop of the visible-light
\* session does not keep the infrared stop from being issued, and on return
\* no session is marked Streaming (session flags and busy flags false).
C13_StopReachesEveryStreamingSession ==
    StopRequested
    => /\ pre.rgb.video_opened => Issued("MV_CC_StopGrabbing")
       /\ pre.ir._video_opened => Issued("SGP_CloseIrVideo")
       /\ ~op.raised
       /\ ~rgb.video_opened /\ ~ir._video_opened
       /\ ~rgbBusyFlag /\ ~irBusyFlag

\* both sessions Streaming, the visible-light stop fails
C13_Witness ==
    /\ StopRequested /\ pre.rgb.video_opened /\ pre.ir._video_opened
    /\ Logged("error: Stop grabbing failed")
    /\ Issued("SGP_CloseIrVideo")

\* C14: a stop request while neither busy flag is set is reported as a
\* duplicate, issues no native call and leaves every session field and
\* every controller flag as it was.
C14_StopWhenIdleIsDuplicate ==
    (StopRequested /\ ~pre.rgbBusyFlag /\ ~pre.irBusyFlag)
    => /\ calls = <<>>
       /\ log = <<"InfoBar.info: repeated stop sampling">>
       /\ ~op.raised
       /\ rgb = pre.rgb /\ ir = pre.ir
       /\ rgbOpenFlag = pre.rgbOpenFlag /\ irOpenFlag = pre.irOpenFlag
       /\ ~rgbBusyFlag /\ ~irBusyFlag

\* a duplicate stop request with the visible-light camera open
C14_Witness ==
    /\ StopRequested /\ ~pre.rgbBusyFlag /\ ~pre.irBusyFlag
    /\ pre.rgbOpenFlag /\ pre.rgb.logged_in
    /\ log = <<"InfoBar.info: repeated stop sampling">>

\* hk_save_jpg was called in the last operation
SaveJpgCalled ==
    \/ Logged("TypeError: Save_jpg() takes 1 positional argument")
    \/ Logged("AttributeError: hk_save_jpg")

\* C15: stateGrabButtonClicked issues backend capture calls only for
\* sessions that are Streaming: none at all when no session is Streaming,
\* none for the camera that is not Streaming, and the capture call of each
\* enabled artifact for the camera that is.
C15_SnapshotFollowsStreaming ==
    op.name = "stateGrabButtonClicked"
    => /\ (~pre.rgb.video_opened /\ ~pre.ir._video_opened) => calls = <<>>
       /\ ~pre.rgb.video_opened
          => (~Issued("MV_CC_SaveImageToFileEx") /\ ~SaveJpgCalled)
       /\ ~pre.ir._video_opened
          => (~Issued("SGP_GetHeatMap") /\ ~Issued("SGP_GetImageTemps"))
       /\ (pre.ir._video_opened /\ ~pre.rgb.video_opened)
          => /\ storeManage.save_ir_img => Issued("SGP_GetHeatMap")
             /\ storeManage.save_ir_temp => Issued("SGP_GetImageTemps")
       /\ (pre.rgb.video_opened /\ storeManage.save_rgb_img)
          => Issued("MV_CC_SaveImageToFileEx")

\* C16: with both sessions Streaming and every store option on, the
\* heatmap and the temperature matrix are requested whatever became of the
\* visible-light image, and the temperature matrix is requested whatever
\* became of the heatmap.
C16_ArtifactsAreIndependent ==
    (/\ op.name = "stateGrabButtonClicked"
     /\ pre.rgb.video_opened /\ pre.ir._video_opened
     /\ storeManage.save_rgb_img /\ storeManage.save_ir_img
     /\ storeManage.save_ir_temp)
    => /\ Issued("SGP_GetHeatMap")
       /\ Issued("SGP_GetImageTemps")

\* the native calls of the last operation that release a handle
UnInitCalls == {i \in DOMAIN calls : calls[i].fn = "SGP_UnInitDevice"}

\* C17: an infrared session holds at most one native handle at a time:
\* SGP_InitDevice is issued only while no handle is held, SGP_UnInitDevice
\* is issued at most once for a handle and only for the handle that was
\* acquired, and release() on a null (None or zero) handle issues no native
\* call.
C17_OneLiveHandle ==
    /\ Issued("SGP_InitDevice") => pre.ir.handle \in {None, 0}
    /\ Cardinality(UnInitCalls) <= 1
    /\ \A i \in UnInitCalls :
          /\ calls[i].h = pre.ir.handle
          /\ calls[i].h \notin {None, 0}
          /\ ir.handle = None
    /\ (op.name = "release" /\ pre.ir.handle \in {None, 0}) => calls = <<>>

\* C18: release() (and the destructor that ends with it) stops a Streaming
\* session and logs out a Connected one before SGP_UnInitDevice, and leaves
\* the session Uninitialized: handle None, not logged in, video not open.
C18_ReleaseTearsDownInOrder ==
    op.name \in {"release", "__del__"}
    => /\ pre.ir._video_opened
          => Precedes({"SGP_CloseIrVideo"}, {"SGP_UnInitDevice"})
       /\ pre.ir._logged_in
          => Precedes({"SGP_Logout"}, {"SGP_UnInitDevice"})
       /\ ir.handle = None /\ ~ir._logged_in /\ ~ir._video_opened

\* a render thread whose terminal signal the UI thread has not handled yet
Pending(t) ==
    threads[t].kind = "FunctionLoopWorker" /\ ~threads[t].delivered

PendingIn(slot) ==
    {t \in DOMAIN threads : threads[t].slot = slot /\ Pending(t)}

\* C19: while the task of a render slot has not delivered its terminal
\* event (result or error) no second worker exists for that slot,
\* renderThread[slot] still is that task and the drop area takes no
\* submission; once the terminal event has been handled the drop area takes
\* submissions again.
C19_OneRenderTaskPerSlot ==
    /\ \A slot \in {0, 1} : Cardinality(PendingIn(slot)) <= 1
    /\ \A t \in DOMAIN threads :
          Pending(t) => /\ threads[t].slot \in DOMAIN renderThread
                        /\ renderThread[threads[t].slot] = t
                        /\ ~dragDropAreaEnabled
    /\ op.name \in {"renderOneThreadFinished", "renderAllThreadFinished",
                    "processRenderError"}
          => (dragDropAreaEnabled /\ PendingIn(0) \cup PendingIn(1) = {})

\* a second task runs in the file slot after the first one ended in error
C19_Witness ==
    \E t1, t2 \in DOMAIN threads :
        /\ t1 < t2 /\ threads[t1].slot = 0 /\ threads[t2].slot = 0
        /\ threads[t1].delivered /\ threads[t1].errors = 1
        /\ Pending(t2) /\ renderThread[0] = t2

\* C20: a worker thread (FunctionLoopWorker, FunctionWorker) never emits
\* more than one terminal signal, and a thread whose run() is over has
\* emitted exactly one: result when the function returned, error when it
\* raised, wherever it raised.
C20_ExactlyOneTerminalEvent ==
    \A t \in DOMAIN threads :
        /\ threads[t].results + threads[t].errors <= 1
        /\ threads[t].pc = "finished"
           => threads[t].results + threads[t].errors = 1
        /\ threads[t].pc \in {"function", "returned", "raised"}
           => threads[t].results + threads[t].errors = 0

\* a folder task that raised after its first file, and a finished
\* FunctionWorker
C20_Witness ==
    \E t1, t2 \in DOMAIN threads :
        /\ threads[t1].kind = "FunctionLoopWorker"
        /\ threads[t1].pc = "finished" /\ threads[t1].count > 0
        /\ threads[t1].errors = 1 /\ threads[t1].results = 0
        /\ threads[t2].kind = "FunctionWorker"
        /\ threads[t2].pc = "finished" /\ threads[t2].results = 1

\* C21: the UI thread handles the step signals of a render task in the
\* order the worker emitted them (the n-th handled one is the n-th emitted
\* one), and handles no step signal of the task after its result or error.
C21_ProgressInOrderBeforeTerminal ==
    \A t \in DOMAIN threads :
        \A i \in DOMAIN threads[t].shown :
            /\ threads[t].shown[i].sig = "step"
               => threads[t].shown[i].count = i
            /\ threads[t].shown[i].sig # "step"
               => i = Len(threads[t].shown)

\* a folder task whose two step signals and result have all been handled
C21_Witness ==
    \E t \in DOMAIN threads :
        /\ threads[t].slot = 1
        /\ Len(threads[t].shown) = 3
        /\ threads[t].shown[2].sig = "step"
        /\ threads[t].shown[3].sig = "result"

\* every document of the path has height * width samples
WellFormed(p) ==
    p.docs # <<>> /\ \A i \in DOMAIN p.docs : p.docs[i] = height * width

\* C22: on n well-formed documents render_temp2img never raises, and when
\* it has returned it has emitted exactly n progress events, the i-th with
\* count i and progress value floor(i / n * 100), and its result has
\* count n.
C22_OneProgressEventPerDocument ==
    WellFormed(path) =>
        /\ temp2img.pc # "raised"
        /\ temp2img.pc = "returned" =>
              /\ Len(temp2img.steps) = Len(path.docs)
              /\ \A i \in DOMAIN temp2img.steps :
                    /\ temp2img.steps[i].count = i
                    /\ temp2img.steps[i].progress_value =
                          (i * 100) \div Len(path.docs)
              /\ temp2img.result.count = Len(path.docs)

\* a document with some number of samples other than height * width
Mismatched(p) ==
    {i \in DOMAIN p.docs : p.docs[i] \notin {Malformed, height * width}}

\* C23: in a directory whose documents all parse, a document whose sample
\* count differs from height * width does not end the batch: the function
\* does not raise, and when it has returned every document of the directory
\* has had its progress event and every mismatch has been logged.
C23_ShapeMismatchDoesNotAbort ==
    (/\ path.kind = "dir"
     /\ Mismatched(path) # {}
     /\ \A i \in DOMAIN path.docs : path.docs[i] # Malformed) =>
        /\ temp2img.pc # "raised"
        /\ temp2img.pc = "returned" =>
              /\ Len(temp2img.steps) = Len(path.docs)
              /\ Len(temp2img.log) = Cardinality(Mismatched(path))

\* C24: on a path without matrix document render_temp2img emits no
\* progress event and does not raise; it returns a result with count 0.
C24_NoDocumentIsEmptyResult ==
    path.docs = <<>> =>
        /\ temp2img.steps = <<>>
        /\ temp2img.pc \in {"called", "returned"}
        /\ temp2img.pc = "returned" => temp2img.result.count = 0

\* render_temp2img has returned from an empty directory
C24_Witness ==
    /\ path.kind = "dir" /\ path.docs = <<>>
    /\ temp2img.pc = "returned" /\ temp2img.result.count = 0

PortInRange(v) ==
    /\ v.type \in {"int", "bool", "float", "str"}
    /\ v.tenths # NoNumber \/ v.type # "str"
    /\ 10 <= v.tenths /\ v.tenths < 655360

\* C26: set_port succeeds exactly on the values that convert to an integer
\* of 1..65535 and then stores that integer; on 0, 65536 and on a value
\* that does not convert it fails and the stored port is the one before.
C26_PortRange ==
    op.name = "set_port" =>
        IF PortInRange(args)
        THEN op.ret = SGP_OK /\ ir.param.port * 10 <= args.tenths
                             /\ args.tenths < ir.param.port * 10 + 10
        ELSE op.ret # SGP_OK /\ ir.param = pre.ir.param

\* "65536" was rejected after 65535 had been accepted and stored
C26_Witness ==
    /\ op.name = "set_port" /\ args = PyStr(65536)
    /\ ir.param.port = 65535 /\ op.ret = NotOK

SliderReleased ==
    op.name \in {"hikGainSliderReleased", "hikExposeSliderReleased",
                 "hikFrameRateSliderReleased"}

SetterRejected ==
    \/ Logged("error: Set gain failed")
    \/ Logged("error: Set exposure time failed")
    \/ Logged("error: Set frame rate failed")

\* C27: when the setter of a slider handler rejects the slider's value the
\* handler issues no MV_CC_SetFloatValue call and the cached parameters are
\* the ones before; a handler that issues the call has had its value
\* accepted.
C27_RejectedValueNeverWritten ==
    (SliderReleased /\ SetterRejected) =>
        /\ ~Issued("MV_CC_SetFloatValue")
        /\ rgb.param = pre.rgb.param

\* C28: set_thermometry_param and set_focus called on a session that is
\* not logged in fail and issue no native call.
C28_ParamOpsRequireConnected ==
    (op.name \in {"set_thermometry_param", "set_focus"}
     /\ ~pre.ir._logged_in) =>
        /\ calls = <<>>
        /\ op.ret # SGP_OK

\* C29: hk_stop_grabbing, hk_save_jpg, hk_get_param, hk_set_param and
\* get_thermometry_param never let an exception escape: each returns, in
\* every state and on every answer of the backend.
C29_NoExceptionEscapes ==
    op.name \in {"hk_stop_grabbing", "hk_save_jpg", "hk_get_param",
                 "hk_set_param", "get_thermometry_param"}
        => ~op.raised

\* C30: when SGP_GetThermometryParam answers a code other than SGP_OK,
\* get_thermometry_param returns an error code and no structure; it returns
\* SGP_OK with the structure only when the backend answered SGP_OK.
C30_ThermometryReadFailureReported ==
    (op.name = "get_thermometry_param"
     /\ Issued("SGP_GetThermometryParam")) =>
        /\ args # PyInt(SGP_OK) => (op.ret # SGP_OK /\ op.val = "None")
        /\ (op.ret = SGP_OK /\ op.val # "None") => args = PyInt(SGP_OK)

\* C31: while the infrared session is streaming the frame-callback wrapper
\* is retained (_video_opened implies _video_callback is set), and the
\* wrapper is dropped only by close_ir_video (called directly or from
\* __del__), which issues SGP_CloseIrVideo first.
C31_VideoCallbackRetainedWhileStreaming ==
    /\ ir._video_opened => ir._video_callback
    /\ (pre.ir._video_callback /\ ~ir._video_callback) =>
           /\ op.name \in {"close_ir_video", "__del__"}
           /\ Issued("SGP_CloseIrVideo")
           /\ Logged("info: Close IR video successes")

C31_Witness ==
    /\ op.name = "close_ir_video"
    /\ pre.ir._video_opened /\ pre.ir._video_callback
    /\ ~ir._video_opened /\ ~ir._video_callback
    /\ Issued("SGP_CloseIrVideo")

Copying == \E t \in DOMAIN grab.threads : grab.threads[t].pc = "memcpy"

\* C33: the copy of a frame into buf_save_image by a Work_thread and the
\* read of the buffer by Save_jpg never execute at the same time, and each
\* runs with buf_lock held by its own thread.
C33_CopyAndSaveMutuallyExclusive ==
    /\ ~(Copying /\ grab.main = "save")
    /\ grab.main = "save" => grab.buf_lock = MainThread
    /\ \A t \in DOMAIN grab.threads :
          grab.threads[t].pc = "memcpy" => grab.buf_lock = t

\* Save_jpg reads the buffer while a Work_thread waits for buf_lock
C33_Witness ==
    /\ grab.main = "save" /\ grab.buf_lock = MainThread
    /\ \E t \in DOMAIN grab.threads : grab.threads[t].pc = "acquire"

\* C34: a Work_thread that has ended, stopped by Stop_grabbing or
\* Close_device or by itself, does not hold buf_lock.
C34_LockNeverHeldByDeadThread ==
    \A t \in DOMAIN grab.threads :
        grab.threads[t].pc \in Terminated => grab.buf_lock # t

\* C35: the callback object the native layer holds for each active
\* recording type is the one the session still references, and the
\* session drops its reference only when no recording type is active.
C35_ActiveRecordCallbacksRetained ==
    /\ \A t \in ir._recording_types :
          ir.sdk_record_callback[t] = ir._record_callback
    /\ (pre.ir._record_callback # 0 /\ ir._record_callback = 0) =>
           ir._recording_types = {}

\* C36: after every command of the window the controller flags agree with
\* the driver state: rgbOpenFlag with rgb.logged_in, rgbBusyFlag with
\* rgb.video_opened, irOpenFlag with ir._logged_in and irBusyFlag with
\* ir._video_opened.
C36_FlagsAgreeWithDrivers ==
    /\ rgbOpenFlag = rgb.logged_in
    /\ rgbBusyFlag = rgb.video_opened
    /\ irOpenFlag = ir._logged_in
    /\ irBusyFlag = ir._video_opened

\* both cameras open; the visible-light stream started, the infrared one
\* failed to
C36_Witness ==
    /\ op.name = "startButtonClicked"
    /\ rgbOpenFlag /\ irOpenFlag /\ rgbBusyFlag /\ ~irBusyFlag
    /\ rgb.video_opened /\ ~ir._video_opened
    /\ Logged("error: Open IR video failed")

\* C37: the wrapper's streaming flag agrees with the operation object's
\* (video_opened = b_start_grabbing), and hk_start_grabbing on an open
\* session that is not streaming reaches MV_CC_StartGrabbing: it is not
\* turned down as a call-order error.
C37_StreamingFlagsAgree ==
    /\ rgb.hk_obj_cam_operation =>
          rgb.video_opened = rgb.obj.b_start_grabbing
    /\ (/\ op.name = "hk_start_grabbing"
        /\ pre.rgb.logged_in /\ ~pre.rgb.video_opened)
       => Issued("MV_CC_StartGrabbing")

\* C38: whenever a drop has disabled dragDropArea, the area is eventually
\* enabled again: the worker ends with a result or an error, the event is
\* delivered and its handler enables the area.
C38_DropAreaEventuallyEnabled ==
    (~dragDropAreaEnabled) ~> dragDropAreaEnabled

\* the error handler has enabled the area again after a render that raised
C38_Witness ==
    /\ op.name = "processRenderError"
    /\ dragDropAreaEnabled
    /\ \E t \in DOMAIN threads :
          /\ threads[t].kind = "FunctionLoopWorker"
          /\ threads[t].errors = 1
          /\ threads[t].delivered

\* C39: when the login click finds one of server, port, username or
\* password illegal, none of the four stored connection parameters is
\* changed and SGP_Login is not called.
C39_LoginValidationAllOrNothing ==
    (/\ op.name = "guideLoadButtonClicked"
     /\ Logged("InfoBar.error: illegal login parameters"))
    => /\ ir.param = pre.ir.param
       /\ ~Issued("SGP_Login")

\* C40: the snapshot handler shows its success notice only when at least
\* one of the artifacts it attempted was captured: the heatmap was saved or
\* the temperature matrix was read and written (the visible-light image
\* never is, its call raises).
C40_SuccessNeedsOneCapture ==
    (/\ op.name = "stateGrabButtonClicked"
     /\ Logged("InfoBar.success: snapshot"))
    => \/ Logged("info: Get heatmap successes")
       \/ Logged("write: _temp.json")

====
